---- MODULE Spec2Model ----
(***************************************************************************)
(* Model of the dinodb core: the waits-for graph, the resource lock        *)
(* manager and the transaction manager (pkg/concurrency), and the          *)
(* recovery manager with its write-ahead log (pkg/recovery).               *)
(***************************************************************************)
EXTENDS Integers, Sequences, FiniteSets, TLC

(***************************************************************************)
(* Universe of the model.                                                  *)
(***************************************************************************)
Clients == {"c1", "c2", "c3"}
Resources == {"k0", "k1", "k2"}
\* the clients and resources the two-client specification uses
Clients2 == {"c1", "c2"}
Resources2 == {"k0", "k1"}

\* generations of Transaction objects a client may create with Begin
MaxGen == 2
\* read locks a Lock call may leave on Transaction.mtx
MaxLeak == 1
\* edges the stand-alone waits-for graph may hold
MaxEdges == 3

R_LOCK == 0
W_LOCK == 1
\* a resource that is not a key of Transaction.lockedResources
NoLock == -1
LockTypes == {R_LOCK, W_LOCK}

NoReq == [r |-> "none", lt |-> "none", added |-> <<>>]

VARIABLES
  transactions,     \* tm.transactions: the clients that have a Transaction
  txGen,            \* identity of the Transaction object of each client
  lockedResources,  \* Transaction.lockedResources of each client
  txReaders,        \* read holds on Transaction.mtx that were never released
  lmLocks,          \* keys of ResourceLockManager.locks
  rwReaders,        \* readers of each resource's RWMutex
  rwWriter,         \* whether each resource's RWMutex is write-held
  edges,            \* WaitsForGraph.edges
  pc,               \* where each client's thread is
  req,              \* the Lock call a client's thread is inside
  ret,              \* what the last call returned
  lastCommitFreed,  \* the resources the step just taken released in Commit
  detected,         \* result of the last stand-alone DetectCycle call
  tblExists,        \* whether the table's file is in the database folder
  tbl,              \* the entries of the table: key -> value, NoVal if absent
  recoveryFolder,   \* the copy of the database folder made by delta()
  logFile,          \* the lines of the write-ahead log file
  txStack,          \* rm.txStack: the edit logs of each id
  stackIds,         \* the keys of the map rm.txStack
  op,               \* the edit a client's handler is waiting to apply
  wrote,            \* history: <<key, value before>> of each key a running
                    \* transaction has changed (NoVal: the key was absent)
  committedTbl,     \* history: each key's value as of the last commit record
  committedKeys,    \* history: keys changed by transactions with a commit record
  oldIds,           \* the client ids of the processes that crashed
  pager,            \* the Pager: frames, lists, page table, numPages, file
  pret,             \* what the last pager call returned
  written,          \* history: the bytes last written to each page by Update
  bt,               \* the pages of the B+Tree's file, page pn at bt[pn + 1]
  bref,             \* history: the reference map, key -> value or NoVal
  bret,             \* what the last call on the B+Tree returned
  bexp,             \* history: what the reference map says that call does
  ht,               \* the HashTable: global depth, directory, bucket pages
  hret,             \* what the last call on the hash index returned
  hexp,             \* history: whether that call's key was stored before it
  href,             \* history: key -> the value of its Insert, NoVal if none
  hmeta,            \* the pages of the index's .meta file
  th,               \* the threads inside calls on the B+Tree: where each is,
                    \* its node structs, and history: the page locks it holds
  accesses,         \* history: the page accesses of the step just taken
  lmMtx             \* whether ResourceLockManager.mtx is held

btVars == <<bt, bref, bret, bexp>>

hashVars == <<ht, hret, hexp, href, hmeta>>

thVars == <<th, accesses>>

idxVars == <<pager, pret, written, btVars, hashVars, thVars, lmMtx>>

recVars == <<tblExists, tbl, recoveryFolder, logFile, txStack, stackIds, op,
             wrote, committedTbl, committedKeys, oldIds, idxVars>>

tmVars == <<transactions, txGen, lockedResources, txReaders, lmLocks,
            rwReaders, rwWriter, edges, pc, req, ret, lastCommitFreed, recVars>>

vars == <<transactions, txGen, lockedResources, txReaders, lmLocks,
          rwReaders, rwWriter, edges, pc, req, ret, lastCommitFreed, detected,
          recVars>>

(***************************************************************************)
(* Helpers on sequences and sets.                                          *)
(***************************************************************************)
MinOf(S) == CHOOSE x \in S : \A y \in S : x <= y

SeqsOver(S) ==
  {q \in UNION {[1..n -> S] : n \in 0..Cardinality(S)} :
     /\ Len(q) = Cardinality(S)
     /\ \A i, j \in 1..Len(q) : i # j => q[i] # q[j]}

\* F applied to the value of v
With(v, F(_)) == CHOOSE y \in {F(x) : x \in {v}} : TRUE

(***************************************************************************)
(* Waits-for graph (deadlock.go).  A node is a Transaction pointer,        *)
(* modelled as <<client, generation>>.                                     *)
(***************************************************************************)
TxPtr(c) == <<c, txGen[c]>>

AddEdge(es, from, to) == Append(es, <<from, to>>)

\* removeHelper: overwrite slot i with the last element, drop the last slot
removeHelper(list, i) ==
  [j \in 1..(Len(list) - 1) |-> IF j = i THEN list[Len(list)] ELSE list[j]]

\* RemoveEdge: removes the first matching copy; "edge not found" changes nothing
RemoveEdge(es, from, to) ==
  LET idx == {i \in 1..Len(es) : es[i] = <<from, to>>} IN
  IF idx = {} THEN es ELSE removeHelper(es, MinOf(idx))

\* dfs: follows the first edge leaving `from`; true when its target was seen
RECURSIVE dfs(_, _, _)
dfs(es, from, seen) ==
  LET idx == {i \in 1..Len(es) : es[i][1] = from} IN
  IF idx = {} THEN FALSE
  ELSE LET e == es[MinOf(idx)] IN
       IF e[2] \in seen THEN TRUE
       ELSE dfs(es, e[2], seen \cup {e[2]})

\* a detector that shares one seen-set across all edges: flags two edges
\* into the same transaction
DetectCycleSharedSeen(es) ==
  \E i, j \in 1..Len(es) : i < j /\ es[i][2] = es[j][2]

DetectCycle(es) ==
  IF Len(es) = 0 THEN FALSE ELSE dfs(es, es[1][1], {})

\* Reference: the edge multiset has a directed cycle
RECURSIVE ReachFrom(_, _, _)
ReachFrom(es, frontier, visited) ==
  LET next == {es[i][2] : i \in {j \in 1..Len(es) : es[j][1] \in frontier}}
      new == next \ visited IN
  IF new = {} THEN visited ELSE ReachFrom(es, new, visited \cup new)

HasCycle(es) ==
  \E i \in 1..Len(es) : es[i][1] \in ReachFrom(es, {es[i][1]}, {})


(***************************************************************************)
(* Resource lock manager (resource_locks.go): one RWMutex per resource,    *)
(* created on first Lock.                                                  *)
(***************************************************************************)
\* an exclusive lock that does not wait for readers to leave
MutexFreeIgnoringReaders(r, lt) == ~rwWriter[r]

\* lock.RLock() / lock.Lock() can return
MutexFree(r, lt) ==
  IF lt = R_LOCK THEN ~rwWriter[r]
  ELSE ~rwWriter[r] /\ rwReaders[r] = 0

\* readers a resource's mutex gets from direct calls of the lock manager
MaxReaders == 2

\* everything outside the lock manager and its callers' threads
lmOther == <<transactions, txGen, lockedResources, txReaders, edges,
             lastCommitFreed, detected, tblExists, tbl, recoveryFolder,
             logFile, txStack, stackIds, op, wrote, committedTbl,
             committedKeys, oldIds, pager, pret, written, btVars, hashVars,
             thVars>>

\* ResourceLockManager.Lock up to lock.RLock() / lock.Lock(): the mutex of
\* the resource is looked up, and made if missing, under lm.mtx
LMLock(c, r, lt) ==
  /\ pc[c] = "idle"
  /\ ~lmMtx
  /\ lmLocks' = lmLocks \cup {r}
  /\ pc' = [pc EXCEPT ![c] = "lmWait"]
  /\ req' = [req EXCEPT ![c] = [r |-> r, lt |-> lt, added |-> <<>>]]
  /\ ret' = "pending"
  /\ UNCHANGED <<rwReaders, rwWriter, lmMtx, lmOther>>

\* lock.RLock() / lock.Lock() returns, and Lock with it
LMLockReturn(c) ==
  /\ pc[c] = "lmWait"
  /\ MutexFree(req[c].r, req[c].lt)
  /\ req[c].lt = R_LOCK => rwReaders[req[c].r] < MaxReaders
  /\ rwReaders' = IF req[c].lt = R_LOCK
                  THEN [rwReaders EXCEPT ![req[c].r] = @ + 1] ELSE rwReaders
  /\ rwWriter' = IF req[c].lt = W_LOCK
                 THEN [rwWriter EXCEPT ![req[c].r] = TRUE] ELSE rwWriter
  /\ pc' = [pc EXCEPT ![c] = "idle"]
  /\ req' = [req EXCEPT ![c] = NoReq]
  /\ ret' = "nil"
  /\ UNCHANGED <<lmLocks, lmMtx, lmOther>>

\* ResourceLockManager.Unlock of a resource that is not in the map, or whose
\* mutex is held in the mode lt
LMUnlock(c, r, lt) ==
  /\ pc[c] = "idle"
  /\ ~lmMtx
  /\ IF r \notin lmLocks
     THEN /\ ret' = "nonexistent_resource"
          /\ lmMtx' = TRUE
          /\ UNCHANGED <<rwReaders, rwWriter>>
     ELSE /\ IF lt = R_LOCK THEN rwReaders[r] > 0 ELSE rwWriter[r]
          /\ rwReaders' = IF lt = R_LOCK
                          THEN [rwReaders EXCEPT ![r] = @ - 1] ELSE rwReaders
          /\ rwWriter' = IF lt = W_LOCK
                         THEN [rwWriter EXCEPT ![r] = FALSE] ELSE rwWriter
          /\ ret' = "nil"
          /\ UNCHANGED lmMtx
  /\ UNCHANGED <<lmLocks, pc, req, lmOther>>

\* reader count after lock.RLock() / lock.RUnlock()
ReadersAfterLock(r, lt) ==
  IF lt = R_LOCK THEN [rwReaders EXCEPT ![r] = @ + 1] ELSE rwReaders
WriterAfterLock(r, lt) ==
  IF lt = W_LOCK THEN [rwWriter EXCEPT ![r] = TRUE] ELSE rwWriter

(***************************************************************************)
(* Transaction manager (TransactionManager in package concurrency).        *)
(***************************************************************************)
NoLocks == [r \in Resources |-> NoLock]

\* conflictingTransactions: the transactions holding r where either side writes
conflictingTransactions(r, lt) ==
  {d \in transactions :
     /\ lockedResources[d][r] # NoLock
     /\ (lockedResources[d][r] = W_LOCK \/ lt = W_LOCK)}

RECURSIVE AddEdges(_, _, _)
AddEdges(es, from, tos) ==
  IF tos = <<>> THEN es
  ELSE AddEdges(AddEdge(es, from, Head(tos)), from, Tail(tos))

\* the deferred RemoveEdge calls run last-registered first
RECURSIVE RemoveEdgesDeferred(_, _, _)
RemoveEdgesDeferred(es, from, tos) ==
  IF tos = <<>> THEN es
  ELSE RemoveEdgesDeferred(RemoveEdge(es, from, tos[Len(tos)]), from,
                           SubSeq(tos, 1, Len(tos) - 1))

\* tm.mtx is not held: no Commit is between its Lock() and its deferred
\* Unlock()
tmMtxFree == \A d \in Clients : pc[d] # "commitDel"

\* Begin
Begin(c) ==
  /\ pc[c] = "idle"
  /\ tmMtxFree
  /\ IF c \in transactions
     THEN /\ ret' = "already_began"
          /\ UNCHANGED <<transactions, txGen, lockedResources, txReaders>>
     ELSE /\ txGen[c] < MaxGen
          /\ transactions' = transactions \cup {c}
          /\ txGen' = [txGen EXCEPT ![c] = @ + 1]
          /\ lockedResources' = [lockedResources EXCEPT ![c] = NoLocks]
          /\ txReaders' = [txReaders EXCEPT ![c] = 0]
          /\ ret' = "ok"
  /\ lastCommitFreed' = {}
  /\ UNCHANGED <<lmLocks, rwReaders, rwWriter, edges, pc, req, detected,
                 recVars>>

\* a Transaction.mtx.RLock() that never returns: some transaction of the
\* manager has a thread waiting in WLock() behind a read hold that is never
\* released, and sync.RWMutex admits no new reader while a writer waits
RLockHangs == \E d \in transactions : pc[d] = "stuckW"

\* the result of Lock on a resource the transaction already holds
RelockResult(curr, lt) ==
  IF curr = R_LOCK /\ lt = W_LOCK THEN "cannot_upgrade" ELSE "ok"

\* Lock, up to the point where it returns or blocks on the resource's mutex:
\* the possible results, each with the waits-for edges it leaves, the edges
\* whose removal is still deferred, and whether transaction.RLock() stays held
LockOutcomes(c, r, lt) ==
  IF c \notin transactions
  THEN {[ret |-> "no_transaction", edges |-> edges, added |-> <<>>, leak |-> 0]}
  ELSE IF RLockHangs
  THEN \* conflictingTransactions waits in t.RLock()
       {[ret |-> "hung", edges |-> edges, added |-> <<>>, leak |-> 0]}
  ELSE IF lockedResources[c][r] # NoLock
  THEN {[ret |-> RelockResult(lockedResources[c][r], lt), edges |-> edges,
         added |-> <<>>, leak |-> 0]}
  ELSE {LET tos == [i \in 1..Len(order) |-> TxPtr(order[i])]
            es1 == AddEdges(edges, TxPtr(c), tos) IN
        IF DetectCycle(es1)
        THEN \* returns with transaction.RLock() still held
             [ret |-> "deadlock",
              edges |-> RemoveEdgesDeferred(es1, TxPtr(c), tos),
              added |-> <<>>, leak |-> 1]
        ELSE [ret |-> "pending", edges |-> es1, added |-> tos, leak |-> 0]
        : order \in SeqsOver(conflictingTransactions(r, lt))}

\* Lock after GetTransaction, up to that point; rq is the table of the
\* requests before the call
LockFromConflicts(c, r, lt, rq) ==
  /\ \E o \in LockOutcomes(c, r, lt) :
       /\ o.leak = 1 => txReaders[c] < MaxLeak
       /\ edges' = o.edges
       /\ txReaders' = [txReaders EXCEPT ![c] = @ + o.leak]
       /\ ret' = o.ret
       /\ pc' = [pc EXCEPT ![c] = IF o.ret = "pending" THEN "lockWait"
                                  ELSE IF o.ret = "hung" THEN "stuckR"
                                  ELSE "idle"]
       /\ req' = IF o.ret = "pending"
                 THEN [rq EXCEPT ![c] = [r |-> r, lt |-> lt, added |-> o.added]]
                 ELSE rq
       /\ lmLocks' = IF o.ret = "pending" THEN lmLocks \cup {r} ELSE lmLocks
  /\ lastCommitFreed' = {}
  /\ UNCHANGED <<transactions, txGen, lockedResources, rwReaders, rwWriter,
                 detected, recVars>>

LockCall(c, r, lt) ==
  /\ pc[c] = "idle"
  /\ tmMtxFree
  /\ LockFromConflicts(c, r, lt, req)

\* Lock of a client that has a transaction, up to the moment GetTransaction
\* has returned and released tm.mtx: conflictingTransactions begins to range
\* over tm.transactions
LockStart(c, r, lt) ==
  /\ pc[c] = "idle"
  /\ tmMtxFree
  /\ c \in transactions
  /\ pc' = [pc EXCEPT ![c] = "iterate"]
  /\ req' = [req EXCEPT ![c] = [r |-> r, lt |-> lt, added |-> <<>>]]
  /\ ret' = "pending"
  /\ lastCommitFreed' = {}
  /\ UNCHANGED <<transactions, txGen, lockedResources, txReaders, lmLocks,
                 rwReaders, rwWriter, edges, detected, recVars>>

\* conflictingTransactions comes to the end of its range, which takes no
\* lock of the manager; Lock goes on to the resource's mutex
LockIterate(c) ==
  /\ pc[c] = "iterate"
  /\ LockFromConflicts(c, req[c].r, req[c].lt, [req EXCEPT ![c] = NoReq])

\* Lock, from the moment the resource's mutex is granted
LockAcquire(c) ==
  /\ pc[c] = "lockWait"
  /\ MutexFree(req[c].r, req[c].lt)
  /\ rwReaders' = ReadersAfterLock(req[c].r, req[c].lt)
  /\ rwWriter' = WriterAfterLock(req[c].r, req[c].lt)
  /\ IF txReaders[c] > 0
     THEN \* transaction.WLock() waits for the read hold that is never released
          /\ pc' = [pc EXCEPT ![c] = "stuckW"]
          /\ ret' = "hung"
          /\ UNCHANGED <<lockedResources, edges, req>>
     ELSE /\ lockedResources' =
                [lockedResources EXCEPT ![c][req[c].r] = req[c].lt]
          /\ edges' = RemoveEdgesDeferred(edges, TxPtr(c), req[c].added)
          /\ pc' = [pc EXCEPT ![c] = "idle"]
          /\ req' = [req EXCEPT ![c] = NoReq]
          /\ ret' = "ok"
  /\ lastCommitFreed' = {}
  /\ UNCHANGED <<transactions, txGen, txReaders, lmLocks, detected, recVars>>

\* Unlock
Unlock(c, r, lt) ==
  /\ pc[c] = "idle"
  /\ tmMtxFree
  /\ IF c \notin transactions
     THEN /\ ret' = "no_transaction"
          /\ UNCHANGED <<lockedResources, rwReaders, rwWriter, pc>>
     ELSE IF txReaders[c] > 0
     THEN \* transaction.WLock() never returns
          /\ pc' = [pc EXCEPT ![c] = "stuckW"]
          /\ ret' = "hung"
          /\ UNCHANGED <<lockedResources, rwReaders, rwWriter>>
     ELSE IF lockedResources[c][r] # lt
     THEN /\ ret' = "invalid_unlock"
          /\ UNCHANGED <<lockedResources, rwReaders, rwWriter, pc>>
     ELSE /\ lockedResources' = [lockedResources EXCEPT ![c][r] = NoLock]
          /\ rwReaders' = IF lt = R_LOCK
                          THEN [rwReaders EXCEPT ![r] = @ - 1] ELSE rwReaders
          /\ rwWriter' = IF lt = W_LOCK
                         THEN [rwWriter EXCEPT ![r] = FALSE] ELSE rwWriter
          /\ ret' = "ok"
          /\ UNCHANGED pc
  /\ lastCommitFreed' = {}
  /\ UNCHANGED <<transactions, txGen, txReaders, lmLocks, edges, req, detected,
                 recVars>>

\* Commit, up to the end of the loop that unlocks the held resources
Commit(c) ==
  /\ pc[c] = "idle"
  /\ tmMtxFree
  /\ IF c \notin transactions
     THEN /\ ret' = "no_transaction"
          /\ lastCommitFreed' = {}
          /\ UNCHANGED <<rwReaders, rwWriter, pc>>
     ELSE /\ lastCommitFreed' =
                {r \in Resources : lockedResources[c][r] # NoLock}
          /\ rwReaders' = [r \in Resources |->
                IF lockedResources[c][r] = R_LOCK
                THEN rwReaders[r] - 1 ELSE rwReaders[r]]
          /\ rwWriter' = [r \in Resources |->
                IF lockedResources[c][r] = W_LOCK THEN FALSE ELSE rwWriter[r]]
          /\ pc' = [pc EXCEPT ![c] = "commitDel"]
          /\ ret' = "pending"
  /\ UNCHANGED <<transactions, txGen, lockedResources, txReaders, lmLocks,
                 edges, req, detected, recVars>>

\* Commit, from delete(tm.transactions, clientId) to its return; the
\* Transaction object and its map are dropped with the table entry
CommitDelete(c) ==
  /\ pc[c] = "commitDel"
  /\ transactions' = transactions \ {c}
  /\ lockedResources' = [lockedResources EXCEPT ![c] = NoLocks]
  /\ txReaders' = [txReaders EXCEPT ![c] = 0]
  /\ pc' = [pc EXCEPT ![c] = "idle"]
  /\ ret' = "ok"
  /\ UNCHANGED <<txGen, lmLocks, rwReaders, rwWriter, edges, req,
                 lastCommitFreed, detected, recVars>>

(***************************************************************************)
(* Recovery layer (pkg/recovery): one B+Tree table named "t", the          *)
(* write-ahead log, the recovery folder, and the REPL handlers that log    *)
(* an edit, lock its key and apply it.                                     *)
(***************************************************************************)
Keys == {0, 1}
\* the value a command writes: a number no record of the log holds yet, so
\* that every edit can be told from every other
Vals == {Len(logFile) + 1}
\* a command that begins a transaction, edits, commits, creates a table or
\* takes a checkpoint starts while the log file has fewer lines than MaxLog
MaxLog == 6
\* an abort or a crash happens while the log file has at most MaxLogEnd lines
MaxLogEnd == 7
\* table.Find returned an error: the key is not in the index
NoVal == -99

\* Resource{tableName: "t", key: k}
Res(k) == IF k = 0 THEN "k0" ELSE "k1"

NoOp == [action |-> "none", key |-> 0, oldval |-> 0, newval |-> 0]

\* fmt's %v of an int64: a minus sign for a negative number, then the digits
Sprint(n) == IF n < 0 THEN <<"-", -n>> ELSE <<n>>
\* the text matches \d+
Digits(s) == Len(s) = 1
\* strconv.Atoi of a text that matched \d+
Atoi(s) == s[1]

tableLog == [kind |-> "table"]
editLog(c, a, k, old, new) ==
  [kind |-> "edit", id |-> c, action |-> a, key |-> k, oldval |-> old,
   newval |-> new]
startLog(c) == [kind |-> "start", id |-> c]
commitLog(c) == [kind |-> "commit", id |-> c]
checkpointLog(ids) == [kind |-> "checkpoint", ids |-> ids]
\* the empty text the backward scanner returns first: the file ends in "\n"
EmptyLine == [kind |-> "empty"]
ParseError == [kind |-> "error"]

\* toString: the line written for a log
toString(l) ==
  IF l.kind = "edit"
  THEN [l EXCEPT !.key = Sprint(@), !.oldval = Sprint(@), !.newval = Sprint(@)]
  ELSE l

\* logFromString: editExp captures key, oldval and newval with (\d+)
logFromString(s) ==
  IF s.kind = "edit"
  THEN IF Digits(s.key) /\ Digits(s.oldval) /\ Digits(s.newval)
       THEN [s EXCEPT !.key = Atoi(@), !.oldval = Atoi(@), !.newval = Atoi(@)]
       ELSE ParseError
  ELSE IF s.kind = "empty" THEN ParseError
  ELSE s

\* The memory and files the handlers of one process work on, as a record:
\* the current state of the model
Mem ==
  [tblExists |-> tblExists, tbl |-> tbl, log |-> logFile, stack |-> txStack,
   ids |-> stackIds, trans |-> transactions, locks |-> lockedResources,
   lm |-> lmLocks, rwR |-> rwReaders, rwW |-> rwWriter, txR |-> txReaders,
   edges |-> edges, wrote |-> wrote, ctbl |-> committedTbl,
   ckeys |-> committedKeys, live |-> TRUE, err |-> "nil"]

EmptyTbl == [k \in Keys |-> NoVal]

\* flushLog
flushLog(M, l) == [M EXCEPT !.log = Append(@, toString(l))]

\* an Edit that pushes the log on the stack and writes nothing to the file
EditStackOnly(M, c, a, k, old, new) ==
  [M EXCEPT !.stack[c] = Append(@, editLog(c, a, k, old, new)),
            !.ids = @ \cup {c}]

\* RecoveryManager.Edit
Edit(M, c, a, k, old, new) ==
  flushLog([M EXCEPT !.stack[c] = Append(@, editLog(c, a, k, old, new)),
                     !.ids = @ \cup {c}],
           editLog(c, a, k, old, new))

\* RecoveryManager.Start
Start(M, c) ==
  flushLog([M EXCEPT !.stack[c] = <<>>, !.ids = @ \cup {c}], startLog(c))

\* the keys of a set of <<key, value>> pairs
KeysOf(ps) == {p[1] : p \in ps}

\* history: transaction c of the running process changes key k, which held
\* M0.tbl[k]
Touch(M, M0, c, k) ==
  IF ~M.live \/ k \in KeysOf(M.wrote[c]) THEN M
  ELSE [M EXCEPT !.wrote[c] = @ \cup {<<k, M0.tbl[k]>>}]

\* history: a commit record of c is written, the values its transaction
\* left in the keys it changed are the committed ones
MarkCommitted(M, c) ==
  [M EXCEPT !.ctbl = [k \in Keys |->
                        IF k \in KeysOf(M.wrote[c]) THEN M.tbl[k] ELSE @[k]],
            !.ckeys = @ \cup KeysOf(M.wrote[c]),
            !.wrote[c] = {}]

\* RecoveryManager.Commit
rmCommit(M, c) ==
  MarkCommitted(
    flushLog([M EXCEPT !.stack[c] = <<>>, !.ids = @ \ {c}], commitLog(c)), c)

\* TransactionManager.Begin on the memory record; "transaction already began"
\* changes nothing
tmBegin(M, c) ==
  IF c \in M.trans THEN M
  ELSE [M EXCEPT !.trans = @ \cup {c}, !.locks[c] = NoLocks, !.txR[c] = 0]

\* TransactionManager.Commit on the memory record, run without interruption
tmCommit(M, c) ==
  IF c \notin M.trans THEN [M EXCEPT !.err = "error"]
  ELSE [M EXCEPT
          !.rwR = [r \in Resources |->
                     IF M.locks[c][r] = R_LOCK THEN @[r] - 1 ELSE @[r]],
          !.rwW = [r \in Resources |->
                     IF M.locks[c][r] = W_LOCK THEN FALSE ELSE @[r]],
          !.trans = @ \ {c},
          !.locks[c] = NoLocks,
          !.txR[c] = 0]

\* database.HandleInsert / HandleUpdate / HandleDelete: err "dbfail" when the
\* table is missing, an inserted key is present or an updated key is absent;
\* the B+Tree's Delete of an absent key returns nil
dbApply(M, a, k, v) ==
  IF ~M.tblExists THEN [M EXCEPT !.err = "dbfail"]
  ELSE IF a = "INSERT"
  THEN IF M.tbl[k] # NoVal THEN [M EXCEPT !.err = "dbfail"]
       ELSE [M EXCEPT !.tbl[k] = v]
  ELSE IF a = "UPDATE"
  THEN IF M.tbl[k] = NoVal THEN [M EXCEPT !.err = "dbfail"]
       ELSE [M EXCEPT !.tbl[k] = v]
  ELSE [M EXCEPT !.tbl[k] = NoVal]

\* TransactionManager.Lock(c, r, W_LOCK) called by a handler that runs to its
\* end on one thread (an undo inside Rollback or Recover).  A lock error sends
\* the handler into its error path, which calls Rollback again ("nested"); a
\* conflicting holder makes the call wait ("hung").
LockNow(M, c, r) ==
  IF c \notin M.trans THEN [M EXCEPT !.err = "nested"]
  ELSE IF M.live /\ RLockHangs THEN [M EXCEPT !.err = "hung"]
  ELSE IF M.locks[c][r] = W_LOCK THEN M
  ELSE IF M.locks[c][r] = R_LOCK THEN [M EXCEPT !.err = "nested"]
  ELSE LET conf == {d \in M.trans : M.locks[d][r] # NoLock}
           order == CHOOSE q \in SeqsOver(conf) : TRUE
           tos == [i \in 1..Len(order) |-> TxPtr(order[i])] IN
       IF DetectCycle(AddEdges(M.edges, TxPtr(c), tos))
       THEN [M EXCEPT !.err = "nested"]
       ELSE IF conf # {} \/ M.rwW[r] \/ M.rwR[r] > 0
       THEN [M EXCEPT !.err = "hung"]
       ELSE [M EXCEPT !.locks[c][r] = W_LOCK, !.rwW[r] = TRUE,
                      !.lm = @ \cup {r}]

\* recovery.HandleInsert / HandleUpdate / HandleDelete called by undo: Find,
\* Edit, then concurrency.Handle* (Lock, then the index operation)
HandleEdit(M, c, a, k, v) ==
  IF ~M.tblExists THEN [M EXCEPT !.err = "error"]
  ELSE IF (a = "INSERT") # (M.tbl[k] = NoVal) THEN [M EXCEPT !.err = "error"]
  ELSE LET old == IF a = "INSERT" THEN 0 ELSE M.tbl[k]
           new == IF a = "DELETE" THEN 0 ELSE v IN
       With(LockNow(Edit(M, c, a, k, old, new), c, Res(k)), LAMBDA M1 :
         IF M1.err # "nil" THEN M1
         ELSE With(dbApply(M1, a, k, new), LAMBDA M2 :
                IF M2.err # "nil" THEN [M2 EXCEPT !.err = "nested"]
                ELSE Touch(M2, M1, c, k)))

\* undo
undo(M, l) ==
  IF l.action = "INSERT" THEN HandleEdit(M, l.id, "DELETE", l.key, 0)
  ELSE IF l.action = "UPDATE" THEN HandleEdit(M, l.id, "UPDATE", l.key, l.oldval)
  ELSE HandleEdit(M, l.id, "INSERT", l.key, l.oldval)

\* the loop of Rollback over the logs it read from rm.txStack, last first
RECURSIVE undoAll(_, _, _)
undoAll(M, logs, i) ==
  IF i = 0 THEN M
  ELSE With(undo(M, logs[i]), LAMBDA M1 :
         IF M1.err # "nil" THEN M1 ELSE undoAll(M1, logs, i - 1))

\* Rollback
Rollback(M, c) ==
  IF c \notin M.ids THEN [M EXCEPT !.err = "error"]
  ELSE With(undoAll(M, M.stack[c], Len(M.stack[c])), LAMBDA M1 :
         IF M1.err # "nil" THEN M1
         ELSE With(tmCommit([M1 EXCEPT !.ids = @ \ {c}, !.stack[c] = <<>>], c),
                   LAMBDA M2 :
                     IF M2.err # "nil" THEN M2
                     ELSE MarkCommitted(flushLog(M2, commitLog(c)), c)))

\* what a handler returns when the call it made failed and it then called
\* Rollback: an error, whatever Rollback returned
AsError(M) == IF M.err = "nil" THEN [M EXCEPT !.err = "error"] ELSE M

\* the error path of HandleInsert / HandleUpdate / HandleDelete: log the
\* inverse edit, pop both edits from the stack, Rollback
ErrorPath(M, c, a, k, old, new) ==
  With(IF a = "INSERT" THEN Edit(M, c, "DELETE", k, new, 0)
       ELSE IF a = "UPDATE" THEN Edit(M, c, "UPDATE", k, new, old)
       ELSE Edit(M, c, "INSERT", k, 0, old),
       LAMBDA M1 :
         With(Rollback([M1 EXCEPT !.stack[c] = SubSeq(@, 1, Len(@) - 2)], c),
              AsError))

\* concurrency.Handle* after Lock returned nil: the index operation, and the
\* error path if it fails
ApplyEdit(M, c, a, k, old, new) ==
  With(dbApply(M, a, k, new), LAMBDA M1 :
    IF M1.err # "nil" THEN ErrorPath(M, c, a, k, old, new)
    ELSE Touch(M1, M, c, k))

\* Prime after a crash: the database folder becomes the recovery folder plus
\* the log file; the new process starts with an empty transaction manager
\* and an empty rm.txStack
Prime ==
  [tblExists |-> recoveryFolder.tblExists, tbl |-> recoveryFolder.tbl,
   log |-> logFile, stack |-> [c \in Clients |-> <<>>], ids |-> {},
   trans |-> {}, locks |-> [c \in Clients |-> NoLocks], lm |-> {},
   rwR |-> [r \in Resources |-> 0], rwW |-> [r \in Resources |-> FALSE],
   txR |-> [c \in Clients |-> 0], edges |-> <<>>,
   wrote |-> [c \in Clients |-> {}], ctbl |-> committedTbl,
   ckeys |-> committedKeys, live |-> FALSE, err |-> "nil"]

\* the loop of getRelevantStrings: file[1..i] are the lines the backward
\* scanner has not returned yet
RECURSIVE scanBack(_, _, _, _, _, _)
scanBack(file, i, relevantStrings, checkpointPos, checkpointHit, txs) ==
  IF i = 0 THEN [strs |-> relevantStrings, pos |-> 0]        \* io.EOF
  ELSE LET line == file[i]
           rel1 == <<line>> \o relevantStrings
           txs1 == IF checkpointHit /\ line.kind = "start"
                   THEN txs \ {logFromString(line).id}
                   ELSE IF ~checkpointHit /\ line.kind = "checkpoint"
                   THEN logFromString(line).ids
                   ELSE txs
           hit1 == checkpointHit \/ line.kind = "checkpoint"
           pos1 == IF ~checkpointHit /\ line.kind = "checkpoint"
                   THEN 0 ELSE checkpointPos + 1 IN
       IF hit1 /\ txs1 = {} THEN [strs |-> rel1, pos |-> pos1]
       ELSE scanBack(file, i - 1, rel1, pos1, hit1, txs1)

\* getRelevantStrings
getRelevantStrings(file) ==
  IF file = <<>> THEN [strs |-> <<>>, pos |-> 0]
  ELSE scanBack(file, Len(file), <<EmptyLine>>, 1, FALSE, {})

\* readLogs: every string but the last is parsed
readLogs(file) ==
  With(getRelevantStrings(file), LAMBDA rs :
    With([i \in 1..(IF Len(rs.strs) > 0 THEN Len(rs.strs) - 1 ELSE 0) |->
            logFromString(rs.strs[i])],
         LAMBDA logs :
           [logs |-> logs, checkpointIndex |-> rs.pos,
            err |-> \E i \in 1..Len(logs) : logs[i].kind = "error"]))

\* a redo that would leave the DELETE edits out
redoSkipDelete(M, l) ==
  IF l.action = "DELETE" THEN M
  ELSE With(dbApply(M, l.action, l.key, l.newval), LAMBDA first :
         IF first.err = "nil" THEN first
         ELSE dbApply(M, IF l.action = "INSERT" THEN "UPDATE" ELSE "INSERT",
                      l.key, l.newval))

\* redo of an edit log
redo(M, l) ==
  With(dbApply(M, l.action, l.key, l.newval), LAMBDA first :
    IF first.err = "nil" \/ l.action = "DELETE" THEN first
    ELSE dbApply(M, IF l.action = "INSERT" THEN "UPDATE" ELSE "INSERT",
                 l.key, l.newval))

RECURSIVE BeginAll(_, _)
BeginAll(M, ids) ==
  IF ids = {} THEN M
  ELSE LET c == CHOOSE x \in ids : TRUE IN
       With(tmBegin(M, c), LAMBDA M1 : BeginAll(M1, ids \ {c}))

\* step 2 of Recover: replay from the checkpoint to the end of the log; i is
\* the 1-based position in logs
RECURSIVE redoLoop(_, _, _, _)
redoLoop(M, logs, i, activeTxs) ==
  IF i > Len(logs) THEN [m |-> M, activeTxs |-> activeTxs]
  ELSE LET l == logs[i] IN
       IF l.kind = "start"
       THEN With(tmBegin(M, l.id), LAMBDA M1 :
              redoLoop(M1, logs, i + 1, activeTxs \cup {l.id}))
       ELSE IF l.kind = "commit"
       THEN With([tmCommit(M, l.id) EXCEPT !.err = "nil"], LAMBDA M1 :
              redoLoop(M1, logs, i + 1, activeTxs \ {l.id}))
       ELSE IF l.kind = "table"
       THEN IF M.tblExists
            THEN [m |-> [M EXCEPT !.err = "error"], activeTxs |-> activeTxs]
            ELSE With([M EXCEPT !.tblExists = TRUE, !.tbl = EmptyTbl],
                      LAMBDA M1 : redoLoop(M1, logs, i + 1, activeTxs))
       ELSE IF l.kind = "edit"
       THEN With(redo(M, l), LAMBDA M1 :
              IF M1.err # "nil"
              THEN [m |-> [M1 EXCEPT !.err = "error"], activeTxs |-> activeTxs]
              ELSE redoLoop(M1, logs, i + 1, activeTxs))
       ELSE With(BeginAll(M, l.ids), LAMBDA M1 :
              redoLoop(M1, logs, i + 1, activeTxs \cup l.ids))

\* step 3 of Recover: undo the active transactions, from the end of the log
\* backwards; reading logs[-1] panics
RECURSIVE undoLoop(_, _, _, _)
undoLoop(M, logs, i, activeTxs) ==
  IF activeTxs = {} THEN M
  ELSE IF i = 0 THEN [M EXCEPT !.err = "panic"]
  ELSE LET l == logs[i] IN
       IF l.kind = "start" /\ l.id \in activeTxs
       THEN With(tmCommit(M, l.id), LAMBDA M1 :
              With(rmCommit([M1 EXCEPT !.err = "nil"], l.id), LAMBDA M2 :
                IF M1.err # "nil" THEN [M2 EXCEPT !.err = "error"]
                ELSE undoLoop(M2, logs, i - 1, activeTxs \ {l.id})))
       ELSE IF l.kind = "edit" /\ l.id \in activeTxs
       THEN With(undo(M, l), LAMBDA M1 :
              IF M1.err # "nil" THEN M1
              ELSE undoLoop(M1, logs, i - 1, activeTxs))
       ELSE undoLoop(M, logs, i - 1, activeTxs)

\* Recover
Recover(M) ==
  With(readLogs(M.log), LAMBDA rl :
    IF rl.err THEN [M EXCEPT !.err = "error"]
    ELSE With(redoLoop(M, rl.logs, rl.checkpointIndex + 1, {}), LAMBDA r :
           IF r.m.err # "nil" THEN r.m
           ELSE undoLoop(r.m, rl.logs, Len(rl.logs), r.activeTxs)))

(***************************************************************************)
(* Pager (package pager): a pool of frames over a file of pages.  A Page   *)
(* object is a frame; the three lists hold frames, head first.             *)
(***************************************************************************)
\* frames the pool of the model holds (config.MaxPagesInBuffer is 32)
MaxPagesInBuffer == 2
\* pages GetNewPage may create
MaxPN == 3
\* values Update writes into a page; 0 stands for bytes never written
MaxByte == 2
\* the pin count GetPage may raise a page to
MaxPin == 2
\* how far below zero PutPage may take a pin count
MaxUnderflow == 1
\* values Update writes where only the lists and the pin counts are observed
MaxPinByte == 1

Frames == 1..MaxPagesInBuffer
PageNums == 0..(MaxPN - 1)
Bytes == 1..MaxByte
NoPage == -1
\* a nil *Page, a page number that is no key of the page table
NoFrame == 0

NewPager ==
  [frames |-> [f \in Frames |->
                 [pagenum |-> NoPage, pinCount |-> 0, dirty |-> FALSE,
                  data |-> 0]],
   freeList |-> [i \in 1..MaxPagesInBuffer |-> i],
   unpinnedList |-> <<>>,
   pinnedList |-> <<>>,
   pageTable |-> [pn \in PageNums |-> NoFrame],
   numPages |-> 0,
   file |-> <<>>]

\* Link.PopSelf: the link of frame f leaves the list it is in
PopSelf(P, f) ==
  [P EXCEPT !.freeList = SelectSeq(@, LAMBDA x : x # f),
            !.unpinnedList = SelectSeq(@, LAMBDA x : x # f),
            !.pinnedList = SelectSeq(@, LAMBDA x : x # f)]

\* file.WriteAt(data, pn * Pagesize): a write past the end extends the file,
\* the gap reads as zeros
WriteAt(file, pn, data) ==
  [i \in 1..(IF pn + 1 > Len(file) THEN pn + 1 ELSE Len(file)) |->
     IF i = pn + 1 THEN data ELSE IF i <= Len(file) THEN file[i] ELSE 0]

\* a FlushPage that clears the dirty flag without writing the file
FlushPageNoWrite(P, f) ==
  IF P.frames[f].dirty THEN [P EXCEPT !.frames[f].dirty = FALSE] ELSE P

\* FlushPage
FlushPage(P, f) ==
  IF P.frames[f].dirty
  THEN [P EXCEPT !.file = WriteAt(@, P.frames[f].pagenum, P.frames[f].data),
                 !.frames[f].dirty = FALSE]
  ELSE P

RECURSIVE FlushList(_, _, _)
FlushList(P, list, i) ==
  IF i > Len(list) THEN P ELSE FlushList(FlushPage(P, list[i]), list, i + 1)

\* FlushAllPages: the pinned list, then the unpinned list
FlushAllPages(P) ==
  LET P1 == FlushList(P, P.pinnedList, 1) IN
  FlushList(P1, P1.unpinnedList, 1)

\* fillPageFromDisk: a read at or past the end of the file reads nothing and
\* leaves the frame's bytes as they were
fillPageFromDisk(P, f) ==
  IF P.frames[f].pagenum + 1 <= Len(P.file)
  THEN [P EXCEPT !.frames[f].data = P.file[P.frames[f].pagenum + 1]]
  ELSE P

\* the frame newPage takes: the head of the free list, else the head of the
\* unpinned list, else none
Victim(P) ==
  IF P.freeList # <<>> THEN Head(P.freeList)
  ELSE IF P.unpinnedList # <<>> THEN Head(P.unpinnedList)
  ELSE NoFrame

Claim(P, f, pagenum) ==
  [P EXCEPT !.frames[f] = [@ EXCEPT !.pagenum = pagenum, !.dirty = FALSE,
                                    !.pinCount = 1]]

\* a newPage that evicts without removing the evicted page's table entry
newPageKeepEntry(P, pagenum) ==
  IF P.freeList # <<>>
  THEN Claim(PopSelf(P, Head(P.freeList)), Head(P.freeList), pagenum)
  ELSE IF P.unpinnedList # <<>>
  THEN Claim(FlushPage(PopSelf(P, Head(P.unpinnedList)), Head(P.unpinnedList)),
             Head(P.unpinnedList), pagenum)
  ELSE P

\* a newPage that never evicts
newPageFreeOnly(P, pagenum) ==
  IF P.freeList # <<>>
  THEN Claim(PopSelf(P, Head(P.freeList)), Head(P.freeList), pagenum)
  ELSE P

\* newPage: the pager after the call; the page returned is Victim(P), and
\* the call fails with ErrRanOutOfPages when Victim(P) is NoFrame
newPage(P, pagenum) ==
  IF P.freeList # <<>>
  THEN Claim(PopSelf(P, Head(P.freeList)), Head(P.freeList), pagenum)
  ELSE IF P.unpinnedList # <<>>
  THEN LET f == Head(P.unpinnedList)
           P1 == FlushPage(PopSelf(P, f), f) IN
       Claim([P1 EXCEPT !.pageTable[P.frames[f].pagenum] = NoFrame],
             f, pagenum)
  ELSE P

\* what a pager call returned
Ret(name, err, page, pn) == [op |-> name, err |-> err, page |-> page, pn |-> pn]

\* Update and FlushPage return nothing
NoRet == Ret("none", "nil", NoFrame, NoPage)

pagerOther == <<transactions, txGen, lockedResources, txReaders, lmLocks, lmMtx,
                rwReaders, rwWriter, edges, pc, req, ret, lastCommitFreed,
                detected, tblExists, tbl, recoveryFolder, logFile, txStack,
                stackIds, op, wrote, committedTbl, committedKeys, oldIds,
                btVars, hashVars, thVars>>

\* GetNewPage
GetNewPage ==
  /\ Victim(pager) # NoFrame => pager.numPages < MaxPN
  /\ LET f == Victim(pager)
         P1 == newPage(pager, pager.numPages) IN
     IF f = NoFrame
     THEN /\ pret' = Ret("GetNewPage", "out_of_pages", NoFrame, NoPage)
          /\ UNCHANGED pager
     ELSE /\ pager' = [P1 EXCEPT !.frames[f].dirty = TRUE,
                                 !.pinnedList = Append(@, f),
                                 !.pageTable[pager.numPages] = f,
                                 !.numPages = @ + 1]
          /\ pret' = Ret("GetNewPage", "nil", f, pager.numPages)
  /\ UNCHANGED <<written, pagerOther>>

\* GetPage; ioerr: fillPageFromDisk fails
GetPage(pagenum, ioerr) ==
  /\ IF pagenum < 0 \/ pagenum > pager.numPages - 1
     THEN /\ pret' = Ret("GetPage", "invalid_pagenum", NoFrame, pagenum)
          /\ UNCHANGED pager
     ELSE IF pager.pageTable[pagenum] # NoFrame
     THEN LET f == pager.pageTable[pagenum]
              P1 == IF f \in {pager.unpinnedList[i] :
                                i \in 1..Len(pager.unpinnedList)}
                    THEN [PopSelf(pager, f) EXCEPT !.pinnedList = Append(@, f)]
                    ELSE pager IN
          /\ pager.frames[f].pinCount < MaxPin
          /\ pager' = [P1 EXCEPT !.frames[f].pinCount = @ + 1]
          /\ pret' = Ret("GetPage", "nil", f, pagenum)
     ELSE LET f == Victim(pager)
              P1 == newPage(pager, pagenum) IN
          IF f = NoFrame
          THEN /\ pret' = Ret("GetPage", "out_of_pages", NoFrame, pagenum)
               /\ UNCHANGED pager
          ELSE IF ioerr
          THEN /\ pager' = [P1 EXCEPT !.freeList = Append(@, f)]
               /\ pret' = Ret("GetPage", "io_error", NoFrame, pagenum)
          ELSE /\ pager' = [fillPageFromDisk(P1, f) EXCEPT
                              !.pinnedList = Append(@, f),
                              !.pageTable[pagenum] = f]
               /\ pret' = Ret("GetPage", "nil", f, pagenum)
  /\ UNCHANGED <<written, pagerOther>>

\* the frames that hold a page: a caller can have a *Page for each of them
Resident(P) ==
  {P.pinnedList[i] : i \in 1..Len(P.pinnedList)}
    \cup {P.unpinnedList[i] : i \in 1..Len(P.unpinnedList)}

\* PutPage(page), page being frame f
PutPage(f) ==
  /\ f \in Resident(pager)
  /\ LET n == pager.frames[f].pinCount - 1
         P1 == [pager EXCEPT !.frames[f].pinCount = n]
         link == pager.pageTable[pager.frames[f].pagenum] IN
     /\ n >= -MaxUnderflow
     /\ pager' = IF n = 0
                 THEN [PopSelf(P1, link) EXCEPT
                         !.unpinnedList = Append(@, f),
                         !.pageTable[pager.frames[f].pagenum] = f]
                 ELSE P1
     /\ pret' = Ret("PutPage", IF n < 0 THEN "pin_underflow" ELSE "nil",
                    NoFrame, NoPage)
  /\ UNCHANGED <<written, pagerOther>>

\* Page.Update by a holder of the page: the page is in the pinned list
Update(f, data) ==
  /\ f \in {pager.pinnedList[i] : i \in 1..Len(pager.pinnedList)}
  /\ pager' = [pager EXCEPT !.frames[f].dirty = TRUE, !.frames[f].data = data]
  /\ written' = [written EXCEPT ![pager.frames[f].pagenum] = data]
  /\ pret' = NoRet
  /\ UNCHANGED pagerOther

\* Pager.FlushPage called on a page
FlushPageCall(f) ==
  /\ f \in Resident(pager)
  /\ pager' = FlushPage(pager, f)
  /\ pret' = NoRet
  /\ UNCHANGED <<written, pagerOther>>

\* Close, then Open on the same file when Close returned nil
CloseAndReopen ==
  /\ IF pager.pinnedList # <<>>
     THEN /\ pret' = Ret("Close", "pages_still_pinned", NoFrame, NoPage)
          /\ UNCHANGED pager
     ELSE /\ pager' = [FlushAllPages(pager) EXCEPT
                         !.numPages = Len(FlushAllPages(pager).file)]
          /\ pret' = Ret("Open", "nil", NoFrame, NoPage)
  /\ UNCHANGED <<written, pagerOther>>

InitPager ==
  /\ pager = NewPager
  /\ pret = NoRet
  /\ written = [pn \in PageNums |-> 0]

(***************************************************************************)
(* The B+Tree index (pkg/btree). The trees built here have fewer pages     *)
(* than the pager has frames, so a page is modelled by its bytes: the node *)
(* type, numKeys, the right sibling and the key, value and page number     *)
(* slots. initPage zeroes them; slots at and beyond numKeys keep whatever  *)
(* was last written there. Page pn is T[pn + 1].                           *)
(***************************************************************************)
\* numKeys at which a leaf splits (202 for the 4096 byte page of the code)
ENTRIES_PER_LEAF_NODE == 3
\* numKeys at which an internal node splits (202 in the code)
KEYS_PER_INTERNAL_NODE == 2
\* keys and values the clients use; 0 is what zeroed bytes decode to
MaxBKey == 4
MaxBVal == 2
ROOT_PN == 0

BKeys == 1..MaxBKey
BVals == 1..MaxBVal
LeafSlots == 0..ENTRIES_PER_LEAF_NODE
KeySlots == 0..KEYS_PER_INTERNAL_NODE
PNSlots == 0..(KEYS_PER_INTERNAL_NODE + 1)

\* initPage followed by pageToNode
initPage(isLeaf) ==
  [leaf |-> isLeaf, numKeys |-> 0, right |-> 0,
   keys |-> [i \in (IF isLeaf THEN LeafSlots ELSE KeySlots) |-> 0],
   vals |-> [i \in (IF isLeaf THEN LeafSlots ELSE {}) |-> 0],
   pns |-> [i \in (IF isLeaf THEN {} ELSE PNSlots) |-> 0]]

\* OpenIndex on an empty file: page 0 is a leaf without right sibling
OpenIndex == <<[initPage(TRUE) EXCEPT !.right = -1]>>

\* sort.Search(j, f) from i = 0, f(h) being keys[h] >= key or keys[h] > key
RECURSIVE SortSearch(_, _, _, _, _)
SortSearch(keys, key, orEqual, i, j) ==
  IF i >= j THEN i
  ELSE LET h == (i + j) \div 2
           fh == IF orEqual THEN keys[h] >= key ELSE keys[h] > key IN
       IF fh THEN SortSearch(keys, key, orEqual, i, h)
       ELSE SortSearch(keys, key, orEqual, h + 1, j)

leafSearch(node, key) == SortSearch(node.keys, key, TRUE, 0, node.numKeys)
internalSearch(node, key) == SortSearch(node.keys, key, FALSE, 0, node.numKeys)

\* Split{}
NoSplit == [isSplit |-> FALSE, key |-> 0, leftPN |-> 0, rightPN |-> 0]
BRes(T, err, split) == [T |-> T, err |-> err, split |-> split]

\* a split that moves the entries but does not link the new leaf into the
\* chain of right siblings
leafSplitNoSibling(T, pn) ==
  LET node == T[pn + 1]
      midpoint == node.numKeys \div 2
      moved == node.numKeys - midpoint
      newNode == [initPage(TRUE) EXCEPT
                    !.right = node.right,
                    !.keys = [i \in LeafSlots |->
                                IF i < moved THEN node.keys[midpoint + i] ELSE 0],
                    !.vals = [i \in LeafSlots |->
                                IF i < moved THEN node.vals[midpoint + i] ELSE 0],
                    !.numKeys = moved] IN
  BRes(Append([T EXCEPT ![pn + 1].numKeys = midpoint], newNode), "nil",
       [isSplit |-> TRUE, key |-> newNode.keys[0], leftPN |-> pn,
        rightPN |-> Len(T)])

\* LeafNode.split
leafSplit(T, pn) ==
  LET node == T[pn + 1]
      newPN == Len(T)
      midpoint == node.numKeys \div 2
      moved == node.numKeys - midpoint
      newNode == [initPage(TRUE) EXCEPT
                    !.right = node.right,
                    !.keys = [i \in LeafSlots |->
                                IF i < moved THEN node.keys[midpoint + i] ELSE 0],
                    !.vals = [i \in LeafSlots |->
                                IF i < moved THEN node.vals[midpoint + i] ELSE 0],
                    !.numKeys = moved]
      left == [node EXCEPT !.right = newPN, !.numKeys = midpoint] IN
  BRes(Append([T EXCEPT ![pn + 1] = left], newNode), "nil",
      [isSplit |-> TRUE, key |-> newNode.keys[0], leftPN |-> pn, rightPN |-> newPN])

\* LeafNode.insert
leafInsert(T, pn, key, value, update) ==
  LET node == T[pn + 1]
      insertPos == leafSearch(node, key) IN
  IF insertPos < node.numKeys /\ node.keys[insertPos] = key
  THEN IF update
       THEN BRes([T EXCEPT ![pn + 1].vals[insertPos] = value], "nil", NoSplit)
       ELSE BRes(T, "duplicate_key", NoSplit)
  ELSE IF update
  THEN BRes(T, "not_found", NoSplit)
  ELSE LET shift(slots, new) ==
             [i \in LeafSlots |->
                IF i = insertPos THEN new
                ELSE IF i > insertPos /\ i <= node.numKeys THEN slots[i - 1]
                ELSE slots[i]]
           T1 == [T EXCEPT ![pn + 1] =
                    [node EXCEPT !.keys = shift(node.keys, key),
                                 !.vals = shift(node.vals, value),
                                 !.numKeys = node.numKeys + 1]] IN
       IF node.numKeys + 1 >= ENTRIES_PER_LEAF_NODE
       THEN leafSplit(T1, pn)
       ELSE BRes(T1, "nil", NoSplit)

\* a delete that lowers numKeys without shifting the entries to the left
leafDeleteNoShift(T, pn, key) ==
  LET node == T[pn + 1]
      deletePos == leafSearch(node, key) IN
  IF deletePos >= node.numKeys \/ node.keys[deletePos] # key
  THEN T
  ELSE [T EXCEPT ![pn + 1].numKeys = @ - 1]

\* LeafNode.delete
leafDelete(T, pn, key) ==
  LET node == T[pn + 1]
      deletePos == leafSearch(node, key)
      shift(slots) ==
        [i \in LeafSlots |->
           IF i >= deletePos /\ i < node.numKeys - 1 THEN slots[i + 1] ELSE slots[i]] IN
  IF deletePos >= node.numKeys \/ node.keys[deletePos] # key
  THEN T
  ELSE [T EXCEPT ![pn + 1] =
          [node EXCEPT !.keys = shift(node.keys), !.vals = shift(node.vals),
                       !.numKeys = node.numKeys - 1]]

\* LeafNode.get
leafGet(T, pn, key) ==
  LET node == T[pn + 1]
      index == leafSearch(node, key) IN
  IF index >= node.numKeys \/ node.keys[index] # key
  THEN [value |-> 0, found |-> FALSE]
  ELSE [value |-> node.vals[index], found |-> TRUE]

\* InternalNode.split
internalSplit(T, pn) ==
  LET node == T[pn + 1]
      newPN == Len(T)
      midpoint == (node.numKeys - 1) \div 2
      moved == node.numKeys - midpoint - 1
      newNode == [initPage(FALSE) EXCEPT
                    !.keys = [i \in KeySlots |->
                                IF i < moved THEN node.keys[midpoint + 1 + i] ELSE 0],
                    !.pns = [i \in PNSlots |->
                               IF i <= moved THEN node.pns[midpoint + 1 + i] ELSE 0],
                    !.numKeys = moved]
      left == [node EXCEPT !.numKeys = midpoint] IN
  BRes(Append([T EXCEPT ![pn + 1] = left], newNode), "nil",
      [isSplit |-> TRUE, key |-> node.keys[midpoint], leftPN |-> pn,
       rightPN |-> newPN])

\* InternalNode.insertSplit
insertSplit(T, pn, split) ==
  LET node == T[pn + 1]
      insertPos == internalSearch(node, split.key)
      keys == [i \in KeySlots |->
                 IF i = insertPos THEN split.key
                 ELSE IF i > insertPos /\ i <= node.numKeys THEN node.keys[i - 1]
                 ELSE node.keys[i]]
      pns == [i \in PNSlots |->
                IF i = insertPos + 1 THEN split.rightPN
                ELSE IF i > insertPos + 1 /\ i <= node.numKeys + 1 THEN node.pns[i - 1]
                ELSE node.pns[i]]
      T1 == [T EXCEPT ![pn + 1] =
               [node EXCEPT !.keys = keys, !.pns = pns,
                            !.numKeys = node.numKeys + 1]] IN
  IF node.numKeys + 1 >= KEYS_PER_INTERNAL_NODE
  THEN internalSplit(T1, pn)
  ELSE BRes(T1, "nil", NoSplit)

\* Node.insert: InternalNode.insert down to LeafNode.insert
RECURSIVE insert(_, _, _, _, _)
insert(T, pn, key, value, update) ==
  IF T[pn + 1].leaf
  THEN leafInsert(T, pn, key, value, update)
  ELSE With(insert(T, T[pn + 1].pns[internalSearch(T[pn + 1], key)],
                   key, value, update),
            LAMBDA result :
              IF result.err # "nil" THEN BRes(result.T, result.err, NoSplit)
              ELSE IF result.split.isSplit THEN insertSplit(result.T, pn, result.split)
              ELSE BRes(result.T, "nil", NoSplit))

\* Node.delete
RECURSIVE delete(_, _, _)
delete(T, pn, key) ==
  IF T[pn + 1].leaf
  THEN leafDelete(T, pn, key)
  ELSE delete(T, T[pn + 1].pns[internalSearch(T[pn + 1], key)], key)

\* Node.get
RECURSIVE get(_, _, _)
get(T, pn, key) ==
  IF T[pn + 1].leaf
  THEN leafGet(T, pn, key)
  ELSE get(T, T[pn + 1].pns[internalSearch(T[pn + 1], key)], key)

\* BTreeIndex.Find
Find(T, key) ==
  LET r == get(T, ROOT_PN, key) IN
  IF r.found THEN [err |-> "nil", entries |-> << <<key, r.value>> >>]
  ELSE [err |-> "not_found", entries |-> <<>>]

\* BTreeIndex.Insert: the insert into the root and the split of the root
IndexInsert(T, key, value) ==
  With(insert(T, ROOT_PN, key, value, FALSE), LAMBDA result :
    IF result.err # "nil" \/ ~result.split.isSplit
    THEN [T |-> result.T, err |-> result.err]
    ELSE IF result.split.leftPN # 0
    THEN [T |-> result.T, err |-> "splitting_corrupted"]
    ELSE LET newNodePN == Len(result.T)
             newRoot == [initPage(FALSE) EXCEPT
                           !.keys[0] = result.split.key,
                           !.pns[0] = newNodePN,
                           !.pns[1] = result.split.rightPN,
                           !.numKeys = 1] IN
         [T |-> Append([result.T EXCEPT ![ROOT_PN + 1] = newRoot],
                       result.T[ROOT_PN + 1]),
          err |-> "nil"])

\* BTreeIndex.Update
IndexUpdate(T, key, value) ==
  With(insert(T, ROOT_PN, key, value, TRUE), LAMBDA result :
    [T |-> result.T, err |-> result.err])

\* BTreeIndex.Delete
IndexDelete(T, key) == [T |-> delete(T, ROOT_PN, key), err |-> "nil"]

\* BTreeCursor.Next
RECURSIVE CursorNext(_, _)
CursorNext(T, c) ==
  IF c.curIndex + 1 >= T[c.curNode + 1].numKeys
  THEN LET nextPN == T[c.curNode + 1].right IN
       IF nextPN < 0 \/ nextPN >= Len(T)
       THEN [c |-> c, atEnd |-> TRUE]
       ELSE IF T[nextPN + 1].numKeys = 0
       THEN CursorNext(T, [curNode |-> nextPN, curIndex |-> 0])
       ELSE [c |-> [curNode |-> nextPN, curIndex |-> 0], atEnd |-> FALSE]
  ELSE [c |-> [c EXCEPT !.curIndex = @ + 1], atEnd |-> FALSE]

\* BTreeCursor.GetEntry
GetEntry(T, c) ==
  LET node == T[c.curNode + 1] IN
  IF c.curIndex > node.numKeys THEN [err |-> "not_a_valid_entry", entry |-> <<0, 0>>]
  ELSE IF node.numKeys = 0 THEN [err |-> "empty_node", entry |-> <<0, 0>>]
  ELSE [err |-> "nil", entry |-> <<node.keys[c.curIndex], node.vals[c.curIndex]>>]

RECURSIVE leftmost(_, _)
leftmost(T, pn) == IF T[pn + 1].leaf THEN pn ELSE leftmost(T, T[pn + 1].pns[0])

\* BTreeIndex.CursorAtStart
CursorAtStart(T) ==
  LET c == [curNode |-> leftmost(T, ROOT_PN), curIndex |-> 0] IN
  IF T[c.curNode + 1].numKeys = 0
  THEN With(CursorNext(T, c), LAMBDA r :
         IF r.atEnd THEN [err |-> "all_leaf_nodes_empty", c |-> r.c]
         ELSE [err |-> "nil", c |-> r.c])
  ELSE [err |-> "nil", c |-> c]

RECURSIVE leafFor(_, _, _)
leafFor(T, pn, key) ==
  IF T[pn + 1].leaf THEN pn
  ELSE leafFor(T, T[pn + 1].pns[internalSearch(T[pn + 1], key)], key)

\* BTreeIndex.CursorAt
CursorAt(T, key) ==
  LET pn == leafFor(T, ROOT_PN, key)
      c == [curNode |-> pn, curIndex |-> leafSearch(T[pn + 1], key)] IN
  IF c.curIndex >= T[pn + 1].numKeys THEN CursorNext(T, c).c ELSE c

\* BTreeIndex.Select: the loop over the cursor
RECURSIVE SelectLoop(_, _, _)
SelectLoop(T, c, entries) ==
  With(GetEntry(T, c), LAMBDA e :
    IF e.err # "nil" THEN [err |-> e.err, entries |-> <<>>]
    ELSE With(CursorNext(T, c), LAMBDA r :
           IF r.atEnd THEN [err |-> "nil", entries |-> Append(entries, e.entry)]
           ELSE SelectLoop(T, r.c, Append(entries, e.entry))))

\* BTreeIndex.Select
Select(T) ==
  With(CursorAtStart(T), LAMBDA s :
    IF s.err # "nil" THEN [err |-> s.err, entries |-> <<>>]
    ELSE SelectLoop(T, s.c, <<>>))

\* BTreeIndex.SelectRange: the loop over the cursor
RECURSIVE RangeLoop(_, _, _, _, _)
RangeLoop(T, c, endKey, checkEntry, acc) ==
  IF endKey > checkEntry[1]
  THEN With(CursorNext(T, c), LAMBDA r :
         IF r.atEnd THEN Append(acc, checkEntry)
         ELSE With(GetEntry(T, r.c), LAMBDA e :
                IF e.err # "nil" THEN Append(acc, checkEntry)
                ELSE RangeLoop(T, r.c, endKey, e.entry, Append(acc, checkEntry))))
  ELSE acc

\* BTreeIndex.SelectRange
SelectRange(T, startKey, endKey) ==
  IF startKey >= endKey
  THEN [err |-> "invalid_range", entries |-> <<>>]
  ELSE With(CursorAt(T, startKey), LAMBDA c :
         With(GetEntry(T, c), LAMBDA e :
           IF e.err # "nil" THEN [err |-> e.err, entries |-> <<>>]
           ELSE [err |-> "nil",
                 entries |-> RangeLoop(T, c, endKey, e.entry, <<>>)]))

\* everything outside the B+Tree
btOther == <<transactions, txGen, lockedResources, txReaders, lmLocks, lmMtx,
             rwReaders, rwWriter, edges, pc, req, ret, lastCommitFreed,
             detected, tblExists, tbl, recoveryFolder, logFile, txStack,
             stackIds, op, wrote, committedTbl, committedKeys, oldIds,
             pager, pret, written, hashVars, thVars>>

\* what a call on the B+Tree returned
BRet(name, key, endKey, r) ==
  [op |-> name, key |-> key, endKey |-> endKey, err |-> r.err, entries |-> r.entries]

NoEntries(r) == [err |-> r.err, entries |-> <<>>]

\* Insert(key, value) by a client and the same insert into the reference map
BInsert(key, value) ==
  /\ \E r \in {IndexInsert(bt, key, value)} :
       bt' = r.T /\ bret' = BRet("Insert", 0, 0, NoEntries(r))
  /\ bexp' = IF bref[key] = NoVal THEN "ok" ELSE "present"
  /\ bref' = IF bref[key] = NoVal THEN [bref EXCEPT ![key] = value] ELSE bref
  /\ UNCHANGED btOther

\* Update(key, value)
BUpdate(key, value) ==
  /\ \E r \in {IndexUpdate(bt, key, value)} :
       bt' = r.T /\ bret' = BRet("Update", 0, 0, NoEntries(r))
  /\ bexp' = IF bref[key] = NoVal THEN "missing" ELSE "ok"
  /\ bref' = IF bref[key] = NoVal THEN bref ELSE [bref EXCEPT ![key] = value]
  /\ UNCHANGED btOther

\* Delete(key)
BDelete(key) ==
  /\ \E r \in {IndexDelete(bt, key)} :
       bt' = r.T /\ bret' = BRet("Delete", 0, 0, NoEntries(r))
  /\ bexp' = IF bref[key] = NoVal THEN "missing" ELSE "ok"
  /\ bref' = [bref EXCEPT ![key] = NoVal]
  /\ UNCHANGED btOther

\* Find(key)
BFind(key) ==
  /\ bret' = BRet("Find", key, 0, Find(bt, key))
  /\ bexp' = IF bref[key] = NoVal THEN "missing" ELSE "ok"
  /\ UNCHANGED <<bt, bref, btOther>>

\* Select()
BSelect ==
  /\ bret' = BRet("Select", 0, 0, Select(bt))
  /\ bexp' = "ok"
  /\ UNCHANGED <<bt, bref, btOther>>

\* SelectRange(startKey, endKey)
BSelectRange(startKey, endKey) ==
  /\ bret' = BRet("SelectRange", startKey, endKey, SelectRange(bt, startKey, endKey))
  /\ bexp' = IF startKey >= endKey THEN "invalid_range" ELSE "ok"
  /\ UNCHANGED <<bt, bref, btOther>>

InitBTree ==
  /\ bt = OpenIndex
  /\ bref = [k \in BKeys |-> NoVal]
  /\ bret = BRet("none", 0, 0, [err |-> "nil", entries |-> <<>>])
  /\ bexp = "ok"

(***************************************************************************)
(* The extendible hash index (pkg/hash). The directory is table.buckets,   *)
(* slot i at buckets[i + 1]; bucket page pn is pages[pn + 1] with its      *)
(* local depth and its numKeys entries. A key of the model stands for the  *)
(* absolute value of its xxHash, which is all the table reads of a key     *)
(* besides equality.                                                       *)
(***************************************************************************)
\* numKeys at which a bucket splits (203 for the 4096 byte page of the code)
MAX_BUCKET_SIZE == 2
\* the global depth up to which inserts are followed
MaxDepth == 4
MaxHVal == 2
\* NewHashTable: depth := 2
InitialDepth == 2
\* binary.MaxVarintLen64, shortened: the bytes of one number in a page
VarintLen == 2
\* the number of times the index is closed
MaxMetaPages == 2

\* keys by the values of their hashes: 0, 4 and 8 share a bucket at depth 2,
\* 0 and 8 still at depth 3; 1 and 5 share a bucket at depth 2
HKeys == {0, 1, 4, 5, 8}
HVals == 1..MaxHVal

RECURSIVE powInt(_, _)
powInt(x, y) == IF y <= 0 THEN 1 ELSE x * powInt(x, y - 1)

Hasher(key, depth) == key % powInt(2, depth)

\* newHashBucket
newHashBucket(depth) == [localDepth |-> depth, entries |-> <<>>]

NewHashTable ==
  [globalDepth |-> InitialDepth,
   buckets |-> [i \in 1..powInt(2, InitialDepth) |-> i - 1],
   pages |-> [i \in 1..powInt(2, InitialDepth) |-> newHashBucket(InitialDepth)]]

\* an ExtendTable whose new slots all reference the bucket of slot 0
ExtendTableToFirst(H) ==
  [H EXCEPT !.globalDepth = @ + 1,
            !.buckets = @ \o [i \in 1..Len(@) |-> @[1]]]

\* HashTable.ExtendTable
ExtendTable(H) ==
  [H EXCEPT !.globalDepth = @ + 1, !.buckets = @ \o @]

\* HashTable.split; a split is not followed once the directory or the bucket
\* has outgrown MaxDepth
RECURSIVE split(_, _, _)
split(H, pn, hash) ==
  IF H.globalDepth > MaxDepth \/ H.pages[pn + 1].localDepth > MaxDepth THEN H
  ELSE
  LET bucket == H.pages[pn + 1]
      oldHash == hash % powInt(2, bucket.localDepth)
      newHash == oldHash + powInt(2, bucket.localDepth)
      H1 == IF bucket.localDepth = H.globalDepth THEN ExtendTable(H) ELSE H
      power == bucket.localDepth + 1
      newPN == Len(H.pages)
      moved == SelectSeq(bucket.entries, LAMBDA e : Hasher(e[1], power) = newHash)
      kept == SelectSeq(bucket.entries, LAMBDA e : Hasher(e[1], power) # newHash)
      H2 == [H1 EXCEPT
               !.buckets = [i \in 1..Len(H1.buckets) |->
                              IF i - 1 >= newHash
                                 /\ (i - 1 - newHash) % powInt(2, power) = 0
                              THEN newPN ELSE H1.buckets[i]],
               !.pages = Append([@ EXCEPT ![pn + 1] =
                                   [localDepth |-> power, entries |-> kept]],
                                [localDepth |-> power, entries |-> moved])] IN
  IF Len(kept) >= MAX_BUCKET_SIZE THEN split(H2, pn, oldHash)
  ELSE IF Len(moved) >= MAX_BUCKET_SIZE THEN split(H2, newPN, newHash)
  ELSE H2

\* HashTable.Insert with HashBucket.Insert
TableInsert(H, key, value) ==
  LET hash == Hasher(key, H.globalDepth)
      pn == H.buckets[hash + 1]
      H1 == [H EXCEPT !.pages[pn + 1].entries = Append(@, <<key, value>>)] IN
  IF Len(H1.pages[pn + 1].entries) >= MAX_BUCKET_SIZE
  THEN split(H1, pn, hash)
  ELSE H1

\* the index of the first entry with the key, 0 when there is none
FirstIndex(entries, key) ==
  IF \E i \in 1..Len(entries) : entries[i][1] = key
  THEN CHOOSE i \in 1..Len(entries) :
         /\ entries[i][1] = key
         /\ \A j \in 1..(i - 1) : entries[j][1] # key
  ELSE 0

\* a Find that hashes the key by the depth of a new table
TableFindByInitialDepth(H, key) ==
  LET entries == H.pages[H.buckets[Hasher(key, InitialDepth) + 1] + 1].entries
      i == FirstIndex(entries, key) IN
  IF i = 0 THEN [err |-> "not_found", entries |-> <<>>]
  ELSE [err |-> "nil", entries |-> <<entries[i]>>]

\* HashTable.Find with HashBucket.Find
TableFind(H, key) ==
  LET entries == H.pages[H.buckets[Hasher(key, H.globalDepth) + 1] + 1].entries
      i == FirstIndex(entries, key) IN
  IF i = 0 THEN [err |-> "not_found", entries |-> <<>>]
  ELSE [err |-> "nil", entries |-> <<entries[i]>>]

\* HashTable.Update with HashBucket.Update
TableUpdate(H, key, value) ==
  LET pn == H.buckets[Hasher(key, H.globalDepth) + 1]
      i == FirstIndex(H.pages[pn + 1].entries, key) IN
  IF i = 0 THEN [H |-> H, err |-> "not_found"]
  ELSE [H |-> [H EXCEPT !.pages[pn + 1].entries[i] = <<key, value>>], err |-> "nil"]

\* HashTable.Delete with HashBucket.Delete
TableDelete(H, key) ==
  LET pn == H.buckets[Hasher(key, H.globalDepth) + 1]
      entries == H.pages[pn + 1].entries
      i == FirstIndex(entries, key) IN
  IF i = 0 THEN [H |-> H, err |-> "not_found"]
  ELSE [H |-> [H EXCEPT !.pages[pn + 1].entries =
                 [j \in 1..(Len(entries) - 1) |->
                    IF j < i THEN entries[j] ELSE entries[j + 1]]],
        err |-> "nil"]

\* whether some bucket holds an entry with the key
Stored(H, key) ==
  \E p \in 1..Len(H.pages) :
    \E i \in 1..Len(H.pages[p].entries) : H.pages[p].entries[i][1] = key

\* everything outside the hash table and the result of the last call on it
hashOtherDisk == <<transactions, txGen, lockedResources, txReaders, lmLocks, lmMtx,
                   rwReaders, rwWriter, edges, pc, req, ret, lastCommitFreed,
                   detected, tblExists, tbl, recoveryFolder, logFile, txStack,
                   stackIds, op, wrote, committedTbl, committedKeys, oldIds,
                   pager, pret, written, btVars, thVars>>

hashOther == <<transactions, txGen, lockedResources, txReaders, lmLocks, lmMtx,
               rwReaders, rwWriter, edges, pc, req, ret, lastCommitFreed,
               detected, tblExists, tbl, recoveryFolder, logFile, txStack,
               stackIds, op, wrote, committedTbl, committedKeys, oldIds,
               pager, pret, written, btVars, thVars, href, hmeta>>

HRet(name, err, entries) == [op |-> name, err |-> err, entries |-> entries]

\* Insert(key, value) by a client
HInsert(key, value) ==
  /\ \E H \in {TableInsert(ht, key, value)} :
       /\ H.globalDepth <= MaxDepth
       /\ ht' = H
  /\ hret' = HRet("Insert", "nil", <<>>)
  /\ hexp' = "ok"
  /\ UNCHANGED hashOther

\* Update(key, value)
HUpdate(key, value) ==
  /\ \E r \in {TableUpdate(ht, key, value)} :
       ht' = r.H /\ hret' = HRet("Update", r.err, <<>>)
  /\ hexp' = IF Stored(ht, key) THEN "ok" ELSE "missing"
  /\ UNCHANGED hashOther

\* Delete(key)
HDelete(key) ==
  /\ \E r \in {TableDelete(ht, key)} :
       ht' = r.H /\ hret' = HRet("Delete", r.err, <<>>)
  /\ hexp' = IF Stored(ht, key) THEN "ok" ELSE "missing"
  /\ UNCHANGED hashOther

\* Find(key)
HFind(key) ==
  /\ \E r \in {TableFind(ht, key)} : hret' = HRet("Find", r.err, r.entries)
  /\ hexp' = IF Stored(ht, key) THEN "ok" ELSE "missing"
  /\ UNCHANGED <<ht, hashOther>>

\* binary.PutVarint into buf: the zig-zag code of x in groups of seven bits,
\* low group first, every byte but the last with the high bit set; the bytes
\* of buf beyond the code are left as they are
RECURSIVE Uvarint(_)
Uvarint(ux) == IF ux < 128 THEN <<ux>> ELSE <<128 + (ux % 128)>> \o Uvarint(ux \div 128)

PutVarint(buf, x) ==
  LET code == Uvarint(IF x >= 0 THEN 2 * x ELSE -2 * x - 1) IN
  [i \in 1..Len(buf) |-> IF i <= Len(code) THEN code[i] ELSE buf[i]]

\* binary.Varint: the bytes up to the first one without the high bit
RECURSIVE ReadUvarint(_, _)
ReadUvarint(buf, i) ==
  IF i > Len(buf) THEN 0
  ELSE IF buf[i] < 128 THEN buf[i]
  ELSE (buf[i] - 128) + 128 * ReadUvarint(buf, i + 1)

Varint(buf) ==
  LET ux == ReadUvarint(buf, 1) IN
  IF ux % 2 = 0 THEN ux \div 2 ELSE -((ux + 1) \div 2)

\* a buffer of VarintLen zero bytes
ZeroBuf == [i \in 1..VarintLen |-> 0]

\* WriteHashTable's loop over table.buckets: pnData is one buffer, written
\* again for every slot and copied into the page
RECURSIVE writePNs(_, _, _, _)
writePNs(buckets, i, pnData, acc) ==
  IF i > Len(buckets) THEN acc
  ELSE With(PutVarint(pnData, buckets[i]),
            LAMBDA d : writePNs(buckets, i + 1, d, Append(acc, d)))

\* the meta page WriteHashTable fills for the table
metaPageOf(H) ==
  [depth |-> PutVarint(ZeroBuf, H.globalDepth),
   pns |-> writePNs(H.buckets, 1, ZeroBuf, <<>>)]

\* WriteHashTable: pager.New on the .meta file, whose pages so far are meta,
\* then GetNewPage, which is the page after them, filled and flushed by Close
WriteHashTable(meta, H) == Append(meta, metaPageOf(H))

\* ReadHashTable: page 0 of the .meta file; the bucket pages are those of the
\* bucket pager's file
ReadHashTable(meta, pages) ==
  LET depth == Varint(meta[1].depth) IN
  [globalDepth |-> depth,
   buckets |-> [i \in 1..powInt(2, depth) |->
                  IF i <= Len(meta[1].pns) THEN Varint(meta[1].pns[i]) ELSE 0],
   pages |-> pages]

\* Insert(key, value) of a key that was not inserted before
HInsertNew(key, value) ==
  /\ href[key] = NoVal
  /\ \E H \in {TableInsert(ht, key, value)} :
       /\ H.globalDepth <= MaxDepth
       /\ \A p \in 1..Len(H.pages) : H.pages[p].localDepth <= MaxDepth
       /\ ht' = H
  /\ hret' = HRet("Insert", "nil", <<>>)
  /\ hexp' = "ok"
  /\ href' = [href EXCEPT ![key] = value]
  /\ UNCHANGED <<hmeta, hashOtherDisk>>

\* index.Close() followed by OpenTable on the same file: WriteHashTable, the
\* bucket pager's Close, which flushes every bucket page, then pager.New and,
\* the file having pages, ReadHashTable
HCloseAndReopen ==
  /\ Len(hmeta) < MaxMetaPages
  /\ \E meta \in {WriteHashTable(hmeta, ht)} :
       /\ hmeta' = meta
       /\ ht' = ReadHashTable(meta, ht.pages)
  /\ hret' = HRet("OpenTable", "nil", <<>>)
  /\ hexp' = "ok"
  /\ UNCHANGED <<href, hashOtherDisk>>

\* database.HandleInsert on a B+Tree table: Find, then Insert
BTreeHandleInsert(T, key, value) ==
  IF Find(T, key).err = "nil" THEN [T |-> T, err |-> "key_exists"]
  ELSE With(IndexInsert(T, key, value), LAMBDA r : [T |-> r.T, err |-> r.err])

\* RecoveryManager.redo of an edit log on a B+Tree table
redoBTree(T, a, key, newval) ==
  IF a = "INSERT"
  THEN With(BTreeHandleInsert(T, key, newval), LAMBDA r :
         IF r.err = "nil" THEN r ELSE IndexUpdate(r.T, key, newval))
  ELSE IF a = "UPDATE"
  THEN With(IndexUpdate(T, key, newval), LAMBDA r :
         IF r.err = "nil" THEN r ELSE BTreeHandleInsert(r.T, key, newval))
  ELSE IndexDelete(T, key)

RedoName(a) ==
  IF a = "INSERT" THEN "RedoInsert"
  ELSE IF a = "UPDATE" THEN "RedoUpdate" ELSE "RedoDelete"

\* redo of an edit log of the database's table, a B+Tree
BRedo(a, key, value) ==
  /\ ht = NewHashTable
  /\ \E r \in {redoBTree(bt, a, key, IF a = "DELETE" THEN 0 ELSE value)} :
       bt' = r.T /\ bret' = BRet(RedoName(a), 0, 0, NoEntries(r))
  /\ bexp' = IF bref[key] = NoVal THEN "missing" ELSE "ok"
  /\ bref' = [bref EXCEPT ![key] = IF a = "DELETE" THEN NoVal ELSE value]
  /\ UNCHANGED btOther

\* database.HandleInsert on a hash table: Find, then Insert
HashHandleInsert(H, key, value) ==
  IF TableFind(H, key).err = "nil" THEN [H |-> H, err |-> "key_exists"]
  ELSE [H |-> TableInsert(H, key, value), err |-> "nil"]

\* RecoveryManager.redo of an edit log on a hash table
redoHash(H, a, key, newval) ==
  IF a = "INSERT"
  THEN With(HashHandleInsert(H, key, newval), LAMBDA r :
         IF r.err = "nil" THEN r ELSE TableUpdate(r.H, key, newval))
  ELSE IF a = "UPDATE"
  THEN With(TableUpdate(H, key, newval), LAMBDA r :
         IF r.err = "nil" THEN r ELSE HashHandleInsert(r.H, key, newval))
  ELSE TableDelete(H, key)

\* redo of an edit log of the database's table, a hash table
HRedo(a, key, value) ==
  /\ bt = OpenIndex
  /\ \E r \in {redoHash(ht, a, key, IF a = "DELETE" THEN 0 ELSE value)} :
       /\ r.H.globalDepth <= MaxDepth
       /\ ht' = r.H
       /\ hret' = HRet(RedoName(a), r.err, <<>>)
  /\ hexp' = IF href[key] = NoVal THEN "missing" ELSE "ok"
  /\ href' = [href EXCEPT ![key] = IF a = "DELETE" THEN NoVal ELSE value]
  /\ UNCHANGED <<hmeta, hashOtherDisk>>

InitHash ==
  /\ ht = NewHashTable
  /\ hret = HRet("none", "nil", <<>>)
  /\ hexp = "ok"
  /\ href = [k \in HKeys |-> NoVal]
  /\ hmeta = <<>>

(***************************************************************************)
(* Threads on one index (pkg/btree, pkg/hash, [CONCURRENCY]). Every page   *)
(* has an RWMutex, SUPER_NODE and the hash table have one of their own. A  *)
(* thread takes a step of its own from one blocking call (WLock, RLock) to *)
(* the next; what it reads and writes in the step goes to accesses,        *)
(* together with the lock it holds on the page at that moment. The locks   *)
(* are kept with the thread that took them: w is the set of pages it       *)
(* write-holds, r maps the pages it read-holds to the number of its RLock  *)
(* calls not yet undone. An RLock waits for a writer that holds the lock,  *)
(* not for one that waits for it. What a thread does to a page within the  *)
(* call that created the page is left out of accesses. The index is a      *)
(* B+Tree or a hash index: the threads call the one or the other.          *)
(***************************************************************************)
Threads == {"t1", "t2", "cp"}
\* the thread that inserts, updates, deletes and finds, and the one that scans
Writers == {"t1"}
Scanners == {"t2"}
\* the lock of SUPER_NODE.page, which is page of no file
SUPER == -1
\* keys the threads use
MaxCKey == 3
CKeys == 1..MaxCKey
\* the scans a thread starts
MaxScans == 2

NoReadLocks == [p \in {} |-> 0]

\* a thread outside every call, holding the locks its calls have left
IdleThread(w, r, scans) ==
  [pc |-> "idle", op |-> "none", key |-> 0, endKey |-> 0,
   stack |-> <<>>, par |-> <<>>, child |-> 0, split |-> NoSplit,
   cur |-> 0, isLeaf |-> TRUE, numKeys |-> 0, right |-> 0, curIndex |-> 0,
   ekey |-> 0, fresh |-> FALSE, crab |-> TRUE,
   w |-> w, r |-> r, scans |-> scans]

HeldMode(s, p) ==
  IF p \in s.w THEN "W" ELSE IF p \in DOMAIN s.r THEN "R" ELSE "none"

\* sync.RWMutex: Lock returns once nobody holds the lock, RLock once no
\* writer holds it
LockFree(p) == \A u \in Threads : HeldMode(th[u], p) = "none"
NoWriter(p) == \A u \in Threads : p \notin th[u].w

\* the lock of HashTable.rwlock
TABLE == -2
\* Pager.ptMtx, which GetPage, GetNewPage, PutPage and LockAllPages lock
PTMTX == -3

\* the index under the threads is a B+Tree: nobody has called the hash index
HashUnused ==
  ht = NewHashTable /\ \A t \in Threads : TABLE \notin DOMAIN th[t].r

WLock(s, p) == [s EXCEPT !.w = @ \cup {p}]
WUnlock(s, p) == [s EXCEPT !.w = @ \ {p}]
RLock(s, p) ==
  [s EXCEPT !.r = IF p \in DOMAIN @ THEN [@ EXCEPT ![p] = @ + 1]
                  ELSE [q \in DOMAIN @ \cup {p} |-> IF q = p THEN 1 ELSE @[q]]]
RUnlock(s, p) ==
  [s EXCEPT !.r = IF @[p] > 1 THEN [@ EXCEPT ![p] = @ - 1]
                  ELSE [q \in DOMAIN @ \ {p} |-> @[q]]]

\* what a thread has in hand during a step: the pages, its own record, and
\* the accesses it has made
Ctx(T, s, a) == [T |-> T, s |-> s, acc |-> a]

\* Page.GetData / Page.Update on page pn by thread t
record(X, t, pn, wr) ==
  [X EXCEPT !.acc = @ \cup {[t |-> t, pn |-> pn, wr |-> wr,
                              lock |-> HeldMode(X.s, pn)]}]

\* node.unlock() of the node at position j of the descent, SUPER_NODE being
\* at position 0: parent = nil, page.WUnlock()
unlockAt(X, j) ==
  IF j = 0 THEN [X EXCEPT !.s = WUnlock(@, SUPER)]
  ELSE [X EXCEPT !.s = WUnlock([@ EXCEPT !.par[j] = FALSE], X.s.stack[j])]

\* the loop of unlockParents from the parent at position j upwards
RECURSIVE unlockFrom(_, _)
unlockFrom(X, j) ==
  IF j = 0 THEN unlockAt(X, 0)
  ELSE IF X.s.par[j] THEN unlockFrom(unlockAt(X, j), j - 1)
  ELSE unlockAt(X, j)

\* InternalNode.unlockParents / LeafNode.unlockParents of the node at
\* position i
unlockParents(X, i) ==
  IF X.s.par[i] THEN unlockFrom([X EXCEPT !.s.par[i] = FALSE], i - 1) ELSE X

IsInsert(s) == s.op \in {"Insert", "Update"}

\* what the call on the child returned
Returned(X, err, sp) == [X |-> X, err |-> err, split |-> sp]

\* LeafNode.insert / delete / get of the leaf the descent has reached
visitLeaf(X0, t) ==
  LET i == Len(X0.s.stack)
      pn == X0.s.stack[i]
      node == X0.T[pn + 1]
      s == X0.s IN
  With(record(X0, t, pn, FALSE), LAMBDA X1 :
    IF IsInsert(s)
    THEN With(leafInsert(X0.T, pn, s.key, MaxBVal, s.op = "Update"), LAMBDA r :
           With(IF node.numKeys # ENTRIES_PER_LEAF_NODE - 1 \/ r.err # "nil"
                   \/ s.op = "Update"
                THEN unlockParents(X1, i) ELSE X1, LAMBDA X2 :
             With(IF r.err = "nil"
                  THEN record([X2 EXCEPT !.T = r.T], t, pn, TRUE) ELSE X2,
                  LAMBDA X3 : Returned(unlockAt(X3, i), r.err, r.split))))
    ELSE With(unlockParents(X1, i), LAMBDA X2 :
           IF s.op = "Delete" /\ leafDelete(X0.T, pn, s.key) # X0.T
           THEN Returned(unlockAt(record([X2 EXCEPT !.T = leafDelete(X0.T, pn, s.key)],
                                         t, pn, TRUE), i), "nil", NoSplit)
           ELSE Returned(unlockAt(X2, i), "nil", NoSplit)))

\* the calls on the stack return: InternalNode.insert from the child's
\* insert on, at positions j down to 1; get and delete return at once
RECURSIVE unwind(_, _, _)
unwind(R, t, j) ==
  IF j = 0 \/ ~IsInsert(R.X.s) THEN R
  ELSE IF R.err # "nil"
  THEN unwind(Returned(unlockParents(R.X, j), R.err, NoSplit), t, j - 1)
  ELSE IF R.split.isSplit
  THEN With(insertSplit(R.X.T, R.X.s.stack[j], R.split), LAMBDA r :
         With(record(record([R.X EXCEPT !.T = r.T], t, R.X.s.stack[j], FALSE),
                     t, R.X.s.stack[j], TRUE), LAMBDA X1 :
           unwind(Returned(unlockAt(IF r.split.isSplit THEN X1
                                    ELSE unlockParents(X1, j), j),
                           "nil", r.split), t, j - 1)))
  ELSE unwind(Returned(unlockParents(R.X, j), "nil", NoSplit), t, j - 1)

\* unsafeUnlockRoot, deferred by Find, Insert, Update and Delete
unsafeUnlockRoot(s) ==
  IF Len(s.par) >= 1 /\ s.par[1]
  THEN WUnlock(WUnlock([s EXCEPT !.par[1] = FALSE], ROOT_PN), SUPER)
  ELSE s

\* rootNode.insert / get / delete has returned to the method of the index:
\* Insert goes on to split the root, holding what the root left locked; the
\* others return
returnToIndex(R) ==
  IF R.X.s.op = "Insert" /\ R.err = "nil" /\ R.split.isSplit
  THEN IF R.split.leftPN # 0
       THEN [R.X EXCEPT !.s = With(unsafeUnlockRoot(WUnlock(@, SUPER)), LAMBDA s :
                                IdleThread(s.w, s.r, s.scans))]
       ELSE [R.X EXCEPT !.s.pc = "rootCopy", !.s.split = R.split]
  ELSE [R.X EXCEPT !.s = With(unsafeUnlockRoot(@), LAMBDA s :
                           IdleThread(s.w, s.r, s.scans))]

\* the node at the end of the stack has just been locked: InternalNode.insert
\* / get / delete up to getAndLockChildAt's WLock, or the whole of the leaf's
\* method and of the returns
visit(X, t) ==
  LET i == Len(X.s.stack)
      pn == X.s.stack[i]
      node == X.T[pn + 1] IN
  IF node.leaf THEN returnToIndex(unwind(visitLeaf(X, t), t, i - 1))
  ELSE With(record(X, t, pn, FALSE), LAMBDA X1 :
         With(IF IsInsert(X.s) /\ node.numKeys = KEYS_PER_INTERNAL_NODE - 1
              THEN X1 ELSE unlockParents(X1, i), LAMBDA X2 :
           [X2 EXCEPT !.s.pc = "getChild",
                      !.s.child = node.pns[internalSearch(node, X.s.key)]]))

\* everything outside the pages and the threads
thOther == <<transactions, txGen, lockedResources, txReaders, lmLocks, lmMtx,
             rwReaders, rwWriter, edges, pc, req, ret, lastCommitFreed,
             detected, tblExists, tbl, recoveryFolder, logFile, txStack,
             stackIds, op, wrote, committedTbl, committedKeys, oldIds,
             pager, pret, written, bref, bret, bexp, hashVars>>

\* the step of thread t ends
Step(X, t) ==
  /\ bt' = X.T
  /\ th' = [th EXCEPT ![t] = X.s]
  /\ accesses' = X.acc
  /\ UNCHANGED thOther

\* Find, Insert, Update or Delete is called: GetPage of the root, which takes
\* the pager's mutex, and lockRoot up to the moment SUPER_NODE.page.WLock()
\* has returned
WBegin(t, name, key) ==
  /\ th[t].pc = "idle"
  /\ HashUnused
  /\ LockFree(PTMTX)
  /\ LockFree(SUPER)
  /\ Step(Ctx(bt, [WLock(th[t], SUPER) EXCEPT !.pc = "lockRoot", !.op = name,
                                               !.key = key], {}), t)

\* whether the method of the node just locked calls GetNewPage with the
\* node's lock held: the leaf is full and the insert splits it
NeedsPager(X) ==
  LET pn == X.s.stack[Len(X.s.stack)] IN
  /\ X.T[pn + 1].leaf
  /\ X.s.op = "Insert"
  /\ leafInsert(X.T, pn, X.s.key, MaxBVal, FALSE).split.isSplit

\* the node's method with the pager's mutex as it is: the thread goes on to
\* its next lock, or it stops in GetNewPage with its locks held. The holder
\* of the mutex is then inside LockAllPages, which gives the mutex back only
\* after it has read-locked every page, this leaf among them
visitOrWait(X, t) ==
  IF NeedsPager(X) /\ ~LockFree(PTMTX) THEN [X EXCEPT !.s.pc = "pagerWait"]
  ELSE visit(X, t)

\* rootPage.WLock() has returned: initRootNode, then the root's method
WLockRoot(t) ==
  /\ th[t].pc = "lockRoot"
  /\ LockFree(ROOT_PN)
  /\ Step(visitOrWait(Ctx(bt, [WLock(th[t], ROOT_PN) EXCEPT
                                  !.stack = <<ROOT_PN>>,
                                  !.par = <<TRUE>>], {}), t), t)

\* getAndLockChildAt: GetPage of the child, which takes the pager's mutex
WGetChild(t) ==
  /\ th[t].pc = "getChild"
  /\ LockFree(PTMTX)
  /\ Step(Ctx(bt, [th[t] EXCEPT !.pc = "lockChild"], {}), t)

\* getAndLockChildAt: page.WLock() has returned; initChild, then the child's
\* method
WLockChild(t) ==
  /\ th[t].pc = "lockChild"
  /\ LockFree(th[t].child)
  /\ Step(visitOrWait(Ctx(bt, [WLock(th[t], th[t].child) EXCEPT
                                  !.stack = Append(@, th[t].child),
                                  !.par = Append(@, TRUE),
                                  !.crab = th[t].stack[Len(th[t].stack)] \in th[t].w],
                          {}), t), t)

\* BTreeIndex.Insert splits the root: createLeafNode / createInternalNode and
\* newNode.copy of the root's page
WRootCopy(t) ==
  /\ th[t].pc = "rootCopy"
  /\ LockFree(PTMTX)
  /\ Step(record(Ctx(Append(bt, bt[ROOT_PN + 1]),
                     [th[t] EXCEPT !.pc = "rootInit", !.child = Len(bt)], {}),
                 t, ROOT_PN, FALSE), t)

\* initPage(rootNode.getPage(), INTERNAL_NODE)
WRootInit(t) ==
  /\ th[t].pc = "rootInit"
  /\ Step(record(Ctx([bt EXCEPT ![ROOT_PN + 1] = initPage(FALSE)],
                     [th[t] EXCEPT !.pc = "rootFill"], {}),
                 t, ROOT_PN, TRUE), t)

\* the new root gets its key and its two children; Insert returns, and the
\* deferred SUPER_NODE.unlock() and unsafeUnlockRoot run
WRootFill(t) ==
  /\ th[t].pc = "rootFill"
  /\ LET newRoot == [bt[ROOT_PN + 1] EXCEPT
                       !.keys[0] = th[t].split.key,
                       !.pns[0] = th[t].child,
                       !.pns[1] = th[t].split.rightPN,
                       !.numKeys = 1]
         X == record(Ctx([bt EXCEPT ![ROOT_PN + 1] = newRoot], th[t], {}),
                     t, ROOT_PN, TRUE) IN
     Step([X EXCEPT !.s = With(unsafeUnlockRoot(WUnlock(@, SUPER)), LAMBDA s :
                             IdleThread(s.w, s.r, s.scans))], t)

\* pageToNode / pageToLeafNode of page pn: the fields the node struct keeps
Snapshot(s, T, pn) ==
  [s EXCEPT !.isLeaf = T[pn + 1].leaf, !.numKeys = T[pn + 1].numKeys,
            !.right = T[pn + 1].right]

\* Select is called: CursorAtStart gets the root's page and reads its header
\* and, the root being a leaf, pageToLeafNode
CBeginSelect(t) ==
  /\ th[t].pc = "idle"
  /\ HashUnused
  /\ LockFree(PTMTX)
  /\ th[t].scans < MaxScans
  /\ Step(record(Ctx(bt, [Snapshot(th[t], bt, ROOT_PN) EXCEPT
                            !.pc = IF bt[ROOT_PN + 1].leaf THEN "lockLeaf"
                                   ELSE "descend",
                            !.op = "Select", !.cur = ROOT_PN,
                            !.scans = @ + 1], {}),
                 t, ROOT_PN, FALSE), t)

\* CursorAtStart's loop: getPNAt(0) of the node, the header of that child
\* and, the child being a leaf, pageToLeafNode
CDescend(t) ==
  /\ th[t].pc = "descend"
  /\ LockFree(PTMTX)
  /\ \E leftmostPN \in {bt[th[t].cur + 1].pns[0]} :
       Step(record(record(Ctx(bt, [Snapshot(th[t], bt, leftmostPN) EXCEPT
                                     !.pc = IF bt[leftmostPN + 1].leaf
                                            THEN "lockLeaf" ELSE "descend",
                                     !.cur = leftmostPN], {}),
                          t, th[t].cur, FALSE), t, leftmostPN, FALSE), t)

\* whether Next, called with the cursor as it is, leaves the node
AtBoundary(s) == s.curIndex + 1 >= s.numKeys

\* leftmostNode.page.RLock() has returned: the cursor exists; Next when the
\* leaf had no keys
CLockLeaf(t) ==
  /\ th[t].pc = "lockLeaf"
  /\ NoWriter(th[t].cur)
  /\ Step(Ctx(bt, [RLock(th[t], th[t].cur) EXCEPT
                     !.pc = IF th[t].numKeys = 0 THEN "next" ELSE "getEntry",
                     !.fresh = th[t].numKeys = 0,
                     !.curIndex = 0,
                     !.crab = th[t].cur = ROOT_PN], {}), t)

\* SelectRange is called: CursorAt up to the moment rootPage.RLock() has
\* returned, pageToNode of the root and, the root being an internal node,
\* search and getChildAt, which ends in pageToNode of the child
CBeginRange(t, startKey, endKey) ==
  /\ th[t].pc = "idle"
  /\ HashUnused
  /\ th[t].scans < MaxScans
  /\ startKey < endKey
  /\ LockFree(PTMTX)
  /\ NoWriter(ROOT_PN)
  /\ LET s == [RLock(th[t], ROOT_PN) EXCEPT
                 !.op = "SelectRange", !.key = startKey, !.endKey = endKey,
                 !.cur = ROOT_PN, !.scans = @ + 1]
         root == bt[ROOT_PN + 1]
         X == record(Ctx(bt, s, {}), t, ROOT_PN, FALSE) IN
     IF root.leaf
     THEN \E i \in {leafSearch(root, startKey)} :
            Step([X EXCEPT !.s = [Snapshot(s, bt, ROOT_PN) EXCEPT
                                    !.curIndex = i,
                                    !.fresh = i >= root.numKeys,
                                    !.pc = IF i >= root.numKeys THEN "next"
                                           ELSE "getEntry"]], t)
     ELSE \E child \in {root.pns[internalSearch(root, startKey)]} :
            Step(record([X EXCEPT !.s = [Snapshot(s, bt, child) EXCEPT
                                           !.child = child,
                                           !.pc = "rangeLockChild"]],
                        t, child, FALSE), t)

\* CursorAt's loop: child.getPage().RLock() has returned; the parent is put
\* and read-unlocked; then search in the child, with the numKeys its struct
\* got before the lock, and getChildAt, or the cursor is made
CRangeLockChild(t) ==
  /\ th[t].pc = "rangeLockChild"
  /\ NoWriter(th[t].child)
  /\ LockFree(PTMTX)
  /\ LET s0 == th[t]
         pn == s0.child
         s == [RUnlock(RLock(s0, pn), s0.cur) EXCEPT
                 !.cur = pn, !.crab = s0.cur \in DOMAIN s0.r]
         node == bt[pn + 1]
         X == record(Ctx(bt, s, {}), t, pn, FALSE) IN
     IF s0.isLeaf
     THEN \E i \in {SortSearch(node.keys, s0.key, TRUE, 0, s0.numKeys)} :
            Step([X EXCEPT !.s.curIndex = i,
                           !.s.fresh = i >= s0.numKeys,
                           !.s.pc = IF i >= s0.numKeys THEN "next" ELSE "getEntry"], t)
     ELSE \E child \in {node.pns[SortSearch(node.keys, s0.key, FALSE, 0, s0.numKeys)]} :
            Step(record([X EXCEPT !.s = [Snapshot(s, bt, child) EXCEPT
                                           !.child = child]],
                        t, child, FALSE), t)

\* Select and SelectRange return; the deferred Close puts the page
Return(s) == IdleThread(s.w, s.r, s.scans)

\* a step that ends in Return, or gets the page of the right sibling, takes
\* the pager's mutex
PagerStep(X) == X.s.pc \in {"idle", "nextLock"} => LockFree(PTMTX)

\* the keys GetEntry may find at the cursor's index: that of the slot, or,
\* the page being no leaf any more, whatever its bytes decode to
EntryKeys(T, s) ==
  IF T[s.cur + 1].leaf THEN {T[s.cur + 1].keys[s.curIndex]} ELSE 0..MaxCKey

\* GetEntry and what Select or SelectRange does with the entry
CGetEntry(t) ==
  /\ th[t].pc = "getEntry"
  /\ LET s == th[t] IN
     IF s.curIndex > s.numKeys \/ s.numKeys = 0
     THEN LockFree(PTMTX) /\ Step(Ctx(bt, Return(s), {}), t)
     ELSE \E k \in EntryKeys(bt, s) :
            \E X \in {record(Ctx(bt, IF s.op = "SelectRange" /\ ~(s.endKey > k)
                                     THEN Return(s)
                                     ELSE [s EXCEPT !.pc = "next", !.ekey = k,
                                                    !.fresh = FALSE], {}),
                             t, s.cur, FALSE)} :
              PagerStep(X) /\ Step(X, t)

\* the cursor's Next returns atEnd to CursorAtStart, CursorAt or the loop
AtEnd(s) ==
  IF s.fresh /\ s.op = "SelectRange"
  THEN [s EXCEPT !.pc = "getEntry", !.fresh = FALSE]
  ELSE Return(s)

\* Next up to nextNode.page.RLock(): the index moves, or the cursor goes to
\* the right sibling, whose page is read by pageToLeafNode
CNext(t) ==
  /\ th[t].pc = "next"
  /\ LET s == th[t] IN
     IF ~AtBoundary(s)
     THEN Step(Ctx(bt, [s EXCEPT !.pc = "getEntry", !.curIndex = @ + 1], {}), t)
     ELSE IF s.right < 0
     THEN \E X \in {Ctx(bt, AtEnd(s), {})} : PagerStep(X) /\ Step(X, t)
     ELSE LockFree(PTMTX)
          /\ Step(record(Ctx(bt, [Snapshot(s, bt, s.right) EXCEPT
                                    !.pc = "nextLock", !.cur = s.right,
                                    !.curIndex = 0], {}),
                         t, s.right, FALSE), t)

\* nextNode.page.RLock() has returned; cursor.curNode, which is nextNode by
\* now, is read-unlocked; Next again when the node has no keys
CNextLock(t) ==
  /\ th[t].pc = "nextLock"
  /\ NoWriter(th[t].cur)
  /\ Step(Ctx(bt, [RUnlock(RLock(th[t], th[t].cur), th[t].cur) EXCEPT
                     !.pc = IF th[t].numKeys = 0 THEN "next" ELSE "getEntry",
                     !.fresh = IF th[t].numKeys = 0 THEN @ ELSE FALSE], {}), t)

\* the index under the threads is a hash index
BTreeUnused ==
  /\ bt = OpenIndex
  /\ \A t \in Threads :
       th[t].pc = "idle" /\ th[t].w = {} /\ DOMAIN th[t].r \subseteq {TABLE}

\* everything outside the hash table and the threads
thHashOther == <<transactions, txGen, lockedResources, txReaders, lmLocks, lmMtx,
                 rwReaders, rwWriter, edges, pc, req, ret, lastCommitFreed,
                 detected, tblExists, tbl, recoveryFolder, logFile, txStack,
                 stackIds, op, wrote, committedTbl, committedKeys, oldIds,
                 pager, pret, written, btVars, hret, hexp, href, hmeta>>

\* HashTable.Insert by thread t, from the moment table.WLock() has returned:
\* no thread is inside a call then, the bucket's lock is free, and the
\* deferred calls unlock the bucket and the table
HTInsert(t, key, value) ==
  /\ BTreeUnused
  /\ LockFree(TABLE)
  /\ \E H \in {TableInsert(ht, key, value)} :
       /\ H.globalDepth <= MaxDepth
       /\ ht' = H
  /\ accesses' = {}
  /\ UNCHANGED <<th, thHashOther>>

\* HashTable.Delete by thread t: table.RLock(), the bucket's WLock,
\* table.RUnlock(), and the deferred bucket.WUnlock()
HTDelete(t, key) ==
  /\ BTreeUnused
  /\ NoWriter(TABLE)
  /\ ht' = TableDelete(ht, key).H
  /\ accesses' = {}
  /\ UNCHANGED <<th, thHashOther>>

\* HashTable.Select by thread t: table.RLock(), then every bucket page is
\* read-locked, read and read-unlocked; nothing unlocks the table
HTSelect(t) ==
  /\ BTreeUnused
  /\ th[t].scans < MaxScans
  /\ NoWriter(TABLE)
  /\ th' = [th EXCEPT ![t] = [RLock(@, TABLE) EXCEPT !.scans = @ + 1]]
  /\ accesses' = {}
  /\ UNCHANGED <<ht, thHashOther>>

\* the pages in the pager's page table
PageTable == 0..(Len(bt) - 1)

\* checkpoints a run takes
MaxCheckpoints == 1

\* RecoveryManager.Checkpoint reaches the table's pager: LockAllPages up to
\* the moment ptMtx.Lock() has returned
KBegin(t) ==
  /\ th[t].pc = "idle"
  /\ HashUnused
  /\ th[t].scans < MaxCheckpoints
  /\ LockFree(PTMTX)
  /\ Step(Ctx(bt, [WLock(th[t], PTMTX) EXCEPT !.pc = "pickPage",
                                               !.op = "Checkpoint",
                                               !.scans = @ + 1], {}), t)

\* LockAllPages' loop comes to the next page of the page table, in the order
\* the map gives; past the last page FlushAllPages and UnlockAllPages run
KPick(t) ==
  /\ th[t].pc = "pickPage"
  /\ IF PageTable \subseteq DOMAIN th[t].r
     THEN Step(Ctx(bt, IdleThread(th[t].w \ {PTMTX}, NoReadLocks, th[t].scans),
                   {}), t)
     ELSE \E p \in PageTable \ DOMAIN th[t].r :
            Step(Ctx(bt, [th[t] EXCEPT !.pc = "lockPage", !.child = p], {}), t)

\* Page.RLock() of that page has returned
KLockPage(t) ==
  /\ th[t].pc = "lockPage"
  /\ NoWriter(th[t].child)
  /\ Step(Ctx(bt, [RLock(th[t], th[t].child) EXCEPT !.pc = "pickPage"], {}), t)

InitThreads ==
  /\ th = [t \in Threads |-> IdleThread({}, NoReadLocks, 0)]
  /\ accesses = {}

(***************************************************************************)
(* The handlers of the recovery REPL as actions.                           *)
(***************************************************************************)
\* the memory record becomes the state
Install(M0) ==
  \E M \in {M0} :
    /\ tblExists' = M.tblExists
    /\ tbl' = M.tbl
    /\ logFile' = M.log
    /\ txStack' = M.stack
    /\ stackIds' = M.ids
    /\ transactions' = M.trans
    /\ lockedResources' = M.locks
    /\ lmLocks' = M.lm
    /\ rwReaders' = M.rwR
    /\ rwWriter' = M.rwW
    /\ txReaders' = M.txR
    /\ edges' = M.edges
    /\ wrote' = M.wrote
    /\ committedTbl' = M.ctbl
    /\ committedKeys' = M.ckeys
    /\ ret' = M.err
    /\ UNCHANGED idxVars

\* the handler of client c returns, or its thread stays blocked in a lock
Finish(M, c) ==
  /\ Install(M)
  /\ pc' = [pc EXCEPT ![c] = IF M.err \in {"hung", "nested"}
                             THEN "stuck" ELSE "idle"]
  /\ req' = [req EXCEPT ![c] = NoReq]
  /\ op' = [op EXCEPT ![c] = NoOp]
  /\ lastCommitFreed' = {}
  /\ UNCHANGED <<recoveryFolder, detected, oldIds>>

\* HandleCreateTable: the table log is written before the table is created
HandleCreateTable ==
  /\ Len(logFile) < MaxLog
  /\ LET M == flushLog(Mem, tableLog) IN
     Install(IF tblExists THEN [M EXCEPT !.err = "error"]
             ELSE [M EXCEPT !.tblExists = TRUE, !.tbl = EmptyTbl])
  /\ lastCommitFreed' = {}
  /\ UNCHANGED <<txGen, pc, req, op, recoveryFolder, detected, oldIds>>

\* HandleTransaction, "transaction begin": rm.Start, tm.Begin, and Rollback
\* when tm.Begin failed
HandleTransactionBegin(c) ==
  /\ pc[c] = "idle"
  /\ c \notin oldIds
  /\ Len(logFile) < MaxLog
  /\ IF c \in transactions
     THEN /\ Finish(AsError(Rollback(Start(Mem, c), c)), c)
          /\ UNCHANGED txGen
     ELSE /\ txGen[c] < MaxGen
          /\ Finish(tmBegin(Start(Mem, c), c), c)
          /\ txGen' = [txGen EXCEPT ![c] = @ + 1]

\* HandleTransaction, "transaction commit": rm.Commit, tm.Commit, and
\* Rollback when tm.Commit failed
HandleTransactionCommit(c) ==
  /\ pc[c] = "idle"
  /\ c \notin oldIds
  /\ Len(logFile) < MaxLog
  /\ LET M1 == tmCommit(rmCommit(Mem, c), c) IN
     Finish(IF M1.err = "nil" THEN M1
            ELSE AsError(Rollback([M1 EXCEPT !.err = "nil"], c)), c)
  /\ UNCHANGED txGen

\* HandleInsert / HandleUpdate / HandleDelete up to the point where tm.Lock
\* returns or blocks on the key's mutex: Find, Edit, then Lock
HandleEditCall(c, a, k, v) ==
  /\ pc[c] = "idle"
  /\ c \notin oldIds
  /\ Len(logFile) < MaxLog
  /\ tmMtxFree
  /\ tblExists
  /\ (a = "INSERT") = (tbl[k] = NoVal)
  /\ LET old == IF a = "INSERT" THEN 0 ELSE tbl[k]
         new == IF a = "DELETE" THEN 0 ELSE v
         M == Edit(Mem, c, a, k, old, new) IN
     \E o \in LockOutcomes(c, Res(k), W_LOCK) :
       /\ o.leak = 1 => txReaders[c] < MaxLeak
       /\ IF o.ret = "pending"
          THEN /\ Install([M EXCEPT !.edges = o.edges, !.lm = @ \cup {Res(k)}])
               /\ pc' = [pc EXCEPT ![c] = "lockWait"]
               /\ req' = [req EXCEPT ![c] = [r |-> Res(k), lt |-> W_LOCK,
                                              added |-> o.added]]
               /\ op' = [op EXCEPT ![c] = [action |-> a, key |-> k,
                                            oldval |-> old, newval |-> new]]
               /\ lastCommitFreed' = {}
               /\ UNCHANGED <<recoveryFolder, detected, oldIds>>
          ELSE IF o.ret = "hung"
          THEN /\ Install([M EXCEPT !.err = "hung"])
               /\ pc' = [pc EXCEPT ![c] = "stuckR"]
               /\ lastCommitFreed' = {}
               /\ UNCHANGED <<req, op, recoveryFolder, detected, oldIds>>
          ELSE IF o.ret = "ok"
          THEN Finish(ApplyEdit(M, c, a, k, old, new), c)
          ELSE Finish(ErrorPath([M EXCEPT !.edges = o.edges,
                                          !.txR[c] = @ + o.leak],
                                c, a, k, old, new), c)
  /\ UNCHANGED txGen

HandleInsert(c, k, v) == HandleEditCall(c, "INSERT", k, v)
HandleUpdate(c, k, v) == HandleEditCall(c, "UPDATE", k, v)
HandleDelete(c, k) == HandleEditCall(c, "DELETE", k, 0)

\* HandleInsert / HandleUpdate / HandleDelete from the moment the key's mutex
\* is granted: the lock is recorded, the index is changed, the handler returns
HandleEditApply(c) ==
  /\ pc[c] = "lockWait"
  /\ op[c] # NoOp
  /\ MutexFree(req[c].r, W_LOCK)
  /\ IF txReaders[c] > 0
     THEN /\ Install([Mem EXCEPT !.rwW[req[c].r] = TRUE, !.err = "hung"])
          /\ pc' = [pc EXCEPT ![c] = "stuckW"]
          /\ lastCommitFreed' = {}
          /\ UNCHANGED <<req, op, recoveryFolder, detected, oldIds>>
     ELSE Finish(ApplyEdit([Mem EXCEPT
                              !.rwW[req[c].r] = TRUE,
                              !.locks[c][req[c].r] = W_LOCK,
                              !.edges = RemoveEdgesDeferred(@, TxPtr(c),
                                                            req[c].added)],
                           c, op[c].action, op[c].key, op[c].oldval,
                           op[c].newval), c)
  /\ UNCHANGED txGen

\* HandleAbort
HandleAbort(c) ==
  /\ pc[c] = "idle"
  /\ c \notin oldIds
  /\ Len(logFile) <= MaxLogEnd
  /\ c \in transactions
  /\ Finish(Rollback(Mem, c), c)
  /\ UNCHANGED txGen

\* HandleCheckpoint: Checkpoint writes the checkpoint log, then delta() copies
\* the database folder to the recovery folder
HandleCheckpoint ==
  /\ Len(logFile) < MaxLog
  /\ Install(flushLog(Mem, checkpointLog(stackIds)))
  /\ recoveryFolder' = [tblExists |-> tblExists, tbl |-> tbl]
  /\ lastCommitFreed' = {}
  /\ UNCHANGED <<txGen, pc, req, op, detected, oldIds>>

\* the ids in the lines of a log: every connection gets a new uuid, so the
\* clients of the next process have none of them
LogIds(log) ==
  {log[i].id : i \in {j \in 1..Len(log) :
                       log[j].kind \in {"start", "commit", "edit"}}}

\* the process dies at this state; the next one runs Prime and Recover
CrashAndRecover ==
  /\ Len(logFile) <= MaxLogEnd
  /\ Install(Recover(Prime))
  /\ txGen' = [c \in Clients |-> 0]
  /\ pc' = [c \in Clients |-> "idle"]
  /\ req' = [c \in Clients |-> NoReq]
  /\ op' = [c \in Clients |-> NoOp]
  /\ oldIds' = oldIds \cup LogIds(logFile)
  /\ lastCommitFreed' = {}
  /\ UNCHANGED <<recoveryFolder, detected>>

InitRec ==
  /\ tblExists = FALSE
  /\ tbl = EmptyTbl
  /\ recoveryFolder = [tblExists |-> FALSE, tbl |-> EmptyTbl]
  /\ logFile = <<>>
  /\ txStack = [c \in Clients |-> <<>>]
  /\ stackIds = {}
  /\ op = [c \in Clients |-> NoOp]
  /\ wrote = [c \in Clients |-> {}]
  /\ committedTbl = EmptyTbl
  /\ committedKeys = {}
  /\ oldIds = {}

InitTM ==
  /\ transactions = {}
  /\ txGen = [c \in Clients |-> 0]
  /\ lockedResources = [c \in Clients |-> NoLocks]
  /\ txReaders = [c \in Clients |-> 0]
  /\ lmLocks = {}
  /\ lmMtx = FALSE
  /\ rwReaders = [r \in Resources |-> 0]
  /\ rwWriter = [r \in Resources |-> FALSE]
  /\ edges = <<>>
  /\ pc = [c \in Clients |-> "idle"]
  /\ req = [c \in Clients |-> NoReq]
  /\ ret = "none"
  /\ lastCommitFreed = {}
  /\ detected = "none"

Init == InitTM /\ InitRec /\ InitPager /\ InitBTree /\ InitThreads /\ InitHash

Next ==
  \/ \E c \in Clients2 : Begin(c)
  \/ \E c \in Clients2, r \in Resources2, lt \in LockTypes : LockCall(c, r, lt)
  \/ \E c \in Clients2 : LockAcquire(c)
  \/ \E c \in Clients2, r \in Resources2, lt \in LockTypes : Unlock(c, r, lt)
  \/ \E c \in Clients2 : Commit(c)
  \/ \E c \in Clients2 : CommitDelete(c)

Spec == Init /\ [][Next]_vars

\* The same clients, with Lock taken in two steps where another client's
\* Begin or Commit fits in between
NextTable ==
  \/ Next
  \/ \E c \in Clients2, r \in Resources2, lt \in LockTypes : LockStart(c, r, lt)
  \/ \E c \in Clients2 : LockIterate(c)

SpecTable == Init /\ [][NextTable]_vars

\* Threads that call the resource lock manager itself
NextLM ==
  \/ \E c \in Clients, r \in Resources, lt \in LockTypes : LMLock(c, r, lt)
  \/ \E c \in Clients : LMLockReturn(c)
  \/ \E c \in Clients, r \in Resources, lt \in LockTypes : LMUnlock(c, r, lt)

SpecLM == Init /\ [][NextLM]_vars

NextRec ==
  \/ HandleCreateTable
  \/ \E c \in Clients2 : HandleTransactionBegin(c)
  \/ \E c \in Clients2 : HandleTransactionCommit(c)
  \/ \E c \in Clients2, k \in Keys, v \in Vals : HandleInsert(c, k, v)
  \/ \E c \in Clients2, k \in Keys, v \in Vals : HandleUpdate(c, k, v)
  \/ \E c \in Clients2, k \in Keys : HandleDelete(c, k)
  \/ \E c \in Clients2 : HandleEditApply(c)
  \/ \E c \in Clients2 : HandleAbort(c)
  \/ HandleCheckpoint
  \/ CrashAndRecover

SpecRec == Init /\ [][NextRec]_vars

\* Clients that may put a page more often than they got it; the bytes they
\* write do not matter to the lists and the pin counts
NextPager ==
  \/ GetNewPage
  \/ \E pn \in (PageNums \cup {NoPage}), ioerr \in BOOLEAN : GetPage(pn, ioerr)
  \/ \E f \in Frames : PutPage(f)
  \/ \E f \in Frames, data \in 1..MaxPinByte : Update(f, data)
  \/ \E f \in Frames : FlushPageCall(f)
  \/ CloseAndReopen

SpecPager == Init /\ [][NextPager]_vars

\* Clients that put only pages they hold and write every byte value
NextPagerData ==
  \/ GetNewPage
  \/ \E pn \in (PageNums \cup {NoPage}), ioerr \in BOOLEAN : GetPage(pn, ioerr)
  \/ \E f \in Frames : pager.frames[f].pinCount >= 1 /\ PutPage(f)
  \/ \E f \in Frames, data \in Bytes : Update(f, data)
  \/ \E f \in Frames : FlushPageCall(f)
  \/ CloseAndReopen

SpecPagerData == Init /\ [][NextPagerData]_vars

\* A single client that inserts, updates, deletes and finds in one B+Tree
NextBTree ==
  \/ \E key \in BKeys, value \in BVals : BInsert(key, value)
  \/ \E key \in BKeys, value \in BVals : BUpdate(key, value)
  \/ \E key \in BKeys : BDelete(key)
  \/ \E key \in BKeys : BFind(key)

SpecBTree == Init /\ [][NextBTree]_vars

\* A single client that inserts and deletes entries of one value and scans
\* the B+Tree
NextBTreeScan ==
  \/ \E key \in BKeys : BInsert(key, MaxBVal)
  \/ \E key \in BKeys : BDelete(key)
  \/ BSelect
  \/ \E startKey \in BKeys, endKey \in BKeys : BSelectRange(startKey, endKey)

SpecBTreeScan == Init /\ [][NextBTreeScan]_vars

\* One thread that inserts, updates, deletes and finds and one that scans, in
\* the same index at the same time
NextThreads ==
  \/ \E t \in Writers, name \in {"Find", "Insert", "Update", "Delete"}, key \in CKeys :
       WBegin(t, name, key)
  \/ \E t \in Writers : WLockRoot(t)
  \/ \E t \in Writers : WGetChild(t)
  \/ \E t \in Writers : WLockChild(t)
  \/ \E t \in Writers : WRootCopy(t)
  \/ \E t \in Writers : WRootInit(t)
  \/ \E t \in Writers : WRootFill(t)
  \/ \E t \in Scanners : CBeginSelect(t)
  \/ \E t \in Scanners : CDescend(t)
  \/ \E t \in Scanners : CLockLeaf(t)
  \/ \E t \in Scanners, startKey \in CKeys, endKey \in CKeys :
       CBeginRange(t, startKey, endKey)
  \/ \E t \in Scanners : CRangeLockChild(t)
  \/ \E t \in Scanners : CGetEntry(t)
  \/ \E t \in Scanners : CNext(t)
  \/ \E t \in Scanners : CNextLock(t)
  \/ \E t \in Writers, key \in HKeys : HTInsert(t, key, MaxHVal)
  \/ \E t \in Writers, key \in HKeys : HTDelete(t, key)
  \/ \E t \in Scanners : HTSelect(t)

SpecThreads == Init /\ [][NextThreads]_vars

\* One thread that inserts, updates, deletes and finds in a B+Tree, and the
\* thread of RecoveryManager.Checkpoint on the table's pager
Checkpointers == {"cp"}

NextCheckpoint ==
  \/ \E t \in Writers, name \in {"Find", "Insert", "Update", "Delete"}, key \in CKeys :
       WBegin(t, name, key)
  \/ \E t \in Writers : WLockRoot(t)
  \/ \E t \in Writers : WGetChild(t)
  \/ \E t \in Writers : WLockChild(t)
  \/ \E t \in Writers : WRootCopy(t)
  \/ \E t \in Writers : WRootInit(t)
  \/ \E t \in Writers : WRootFill(t)
  \/ \E t \in Checkpointers : KBegin(t)
  \/ \E t \in Checkpointers : KPick(t)
  \/ \E t \in Checkpointers : KLockPage(t)

SpecCheckpoint == Init /\ [][NextCheckpoint]_vars

\* A single client of one hash index
NextHash ==
  \/ \E key \in HKeys, value \in HVals : HInsert(key, value)
  \/ \E key \in HKeys, value \in HVals : HUpdate(key, value)
  \/ \E key \in HKeys : HDelete(key)
  \/ \E key \in HKeys : HFind(key)

SpecHash == Init /\ [][NextHash]_vars

\* Edit logs redone on a database whose one table is a B+Tree or a hash table
EditActions == {"INSERT", "UPDATE", "DELETE"}
\* the keys of the edit logs redone on the B+Tree
MaxRedoKey == 3

NextRedo ==
  \/ \E a \in EditActions, key \in 1..MaxRedoKey, value \in BVals :
       BRedo(a, key, value)
  \/ \E a \in EditActions, key \in HKeys, value \in HVals : HRedo(a, key, value)

SpecRedo == Init /\ [][NextRedo]_vars

\* Inserts of distinct keys and Finds on one hash index
NextHashInsert ==
  \/ \E key \in HKeys, value \in HVals : HInsertNew(key, value)
  \/ \E key \in HKeys : HFind(key)

SpecHashInsert == Init /\ [][NextHashInsert]_vars

\* the same with the index closed and opened again in between
NextHashDisk ==
  \/ \E key \in HKeys, value \in HVals : HInsertNew(key, value)
  \/ \E key \in HKeys : HFind(key)
  \/ HCloseAndReopen

SpecHashDisk == Init /\ [][NextHashDisk]_vars

(***************************************************************************)
(* Stand-alone waits-for graph: edges are added and removed freely and     *)
(* DetectCycle is applied to whatever the graph holds.                     *)
(***************************************************************************)
GraphNodes == {<<c, 1>> : c \in Clients}

GAddEdge(from, to) ==
  /\ Len(edges) < MaxEdges
  /\ edges' = AddEdge(edges, from, to)
  /\ detected' = "none"
  /\ UNCHANGED <<transactions, txGen, lockedResources, txReaders, lmLocks,
                 rwReaders, rwWriter, pc, req, ret, lastCommitFreed, recVars>>

GRemoveEdge(from, to) ==
  /\ edges' = RemoveEdge(edges, from, to)
  /\ detected' = "none"
  /\ UNCHANGED <<transactions, txGen, lockedResources, txReaders, lmLocks,
                 rwReaders, rwWriter, pc, req, ret, lastCommitFreed, recVars>>

GDetectCycle ==
  /\ detected' = IF DetectCycle(edges) THEN "true" ELSE "false"
  /\ UNCHANGED tmVars

NextGraph ==
  \/ \E from, to \in GraphNodes : GAddEdge(from, to)
  \/ \E from, to \in GraphNodes : GRemoveEdge(from, to)
  \/ GDetectCycle

SpecGraph == Init /\ [][NextGraph]_vars


(***************************************************************************)
(* Stand-alone write-ahead log: any log the recovery manager can be asked  *)
(* to write is flushed to the file (flushLog, toString), and the last line *)
(* of the file is parsed (logFromString).                                  *)
(***************************************************************************)
\* the largest magnitude of a key or value of an edit log
MaxLogInt == 1
LogInts == (-MaxLogInt)..MaxLogInt
\* the lines the file holds at most
MaxLogLines == 2

LogRecords ==
  {tableLog}
    \cup {startLog(c) : c \in Clients2}
    \cup {commitLog(c) : c \in Clients2}
    \cup {checkpointLog(ids) : ids \in SUBSET Clients2}
    \cup {editLog(c, a, k, old, new) :
            c \in Clients2, a \in EditActions, k \in LogInts,
            old \in LogInts, new \in LogInts}

\* flushLog(l): the line of l is appended to the log file
LogWrite(l) ==
  /\ Len(logFile) < MaxLogLines
  /\ logFile' = flushLog(Mem, l).log
  /\ UNCHANGED <<transactions, txGen, lockedResources, txReaders, lmLocks,
                 rwReaders, rwWriter, edges, pc, req, ret, lastCommitFreed,
                 detected, tblExists, tbl, recoveryFolder, txStack, stackIds,
                 op, wrote, committedTbl, committedKeys, oldIds, idxVars>>

\* logFromString of the last line of the file
LogParse ==
  /\ logFile # <<>>
  /\ ret' = IF logFromString(logFile[Len(logFile)]) = ParseError
            THEN "could not parse log" ELSE "nil"
  /\ UNCHANGED <<transactions, txGen, lockedResources, txReaders, lmLocks,
                 rwReaders, rwWriter, edges, pc, req, lastCommitFreed,
                 detected, recVars>>

NextLog ==
  \/ \E l \in LogRecords : LogWrite(l)
  \/ LogParse

SpecLog == Init /\ [][NextLog]_vars


(***************************************************************************)
(* Properties of the transaction manager and the waits-for graph.          *)
(***************************************************************************)
Holds(c, r) == c \in transactions /\ lockedResources[c][r] # NoLock

\* C4: two distinct transactions record the same resource in their held
\* sets only if both hold it as a read lock.
C4_WriteLockExclusive ==
  \A c, d \in Clients : \A r \in Resources :
    (c # d /\ Holds(c, r) /\ Holds(d, r))
      => (lockedResources[c][r] = R_LOCK /\ lockedResources[d][r] = R_LOCK)

\* C4 for transactions that are not inside Commit: between Commit's unlock
\* loop and its delete the committing transaction still records locks whose
\* mutexes it has released.
C4_WriteLockExclusiveOutsideCommit ==
  \A c, d \in Clients : \A r \in Resources :
    (c # d /\ Holds(c, r) /\ Holds(d, r)
       /\ pc[c] # "commitDel" /\ pc[d] # "commitDel")
      => (lockedResources[c][r] = R_LOCK /\ lockedResources[d][r] = R_LOCK)

C4_Witness ==
  \E c, d \in Clients : \E r \in Resources :
    /\ c # d /\ Holds(c, r) /\ Holds(d, r)
    /\ pc[c] # "commitDel" /\ pc[d] # "commitDel"
    /\ \E e \in Clients : \E q \in Resources : Holds(e, q)
                                              /\ lockedResources[e][q] = W_LOCK

\* c waits, inside Lock, for a resource that d holds in a conflicting mode
WaitsFor(c, d) ==
  /\ c # d
  /\ pc[c] = "lockWait"
  /\ Holds(d, req[c].r)
  /\ (req[c].lt = W_LOCK \/ lockedResources[d][req[c].r] = W_LOCK)

\* C5: no state is reachable in which a set of transactions each wait for a
\* resource held by another member of the set.
C5_NoDeadlock ==
  ~ \E S \in SUBSET Clients :
      /\ S # {}
      /\ \A c \in S : \E d \in S : WaitsFor(c, d)

\* C6: DetectCycle returns true for every edge multiset with a directed cycle.
C6_DetectsEveryCycle ==
  (detected # "none" /\ HasCycle(edges)) => detected = "true"

\* C7: DetectCycle returns true only if the edge multiset has a directed
\* cycle (it returns false on every acyclic multiset).
C7_NoFalsePositive ==
  detected = "true" => HasCycle(edges)

C7_Witness ==
  /\ detected = "false"
  /\ ~HasCycle(edges)
  /\ \E i, j \in 1..Len(edges) : i < j /\ edges[i] = edges[j]
  /\ \E i, j \in 1..Len(edges) :
       i < j /\ edges[i] # edges[j] /\ edges[i][2] = edges[j][2]

\* C8: Commit releases every lock of the transaction and removes it from the
\* manager, and a transaction that was blocked requesting one of the released
\* resources, once granted the resource, holds it.
C8_CommitReleases ==
  [][/\ \A c \in Clients :
          (Commit(c) /\ c \in transactions) =>
            \A r \in Resources :
              /\ lockedResources[c][r] = W_LOCK => ~rwWriter'[r]
              /\ lockedResources[c][r] = R_LOCK
                   => rwReaders'[r] = rwReaders[r] - 1
     /\ \A c \in Clients :
          CommitDelete(c) =>
            /\ c \notin transactions'
            /\ lockedResources'[c] = NoLocks
     /\ \A c \in Clients :
          (LockAcquire(c) /\ req[c].r \in lastCommitFreed) =>
            lockedResources'[c][req[c].r] = req[c].lt]_vars

\* C9: Lock on a resource the transaction already holds returns without
\* blocking and leaves the held sets and mutexes unchanged; it fails with
\* cannot_upgrade exactly when write is requested while read is held.
C9_RelockReturns ==
  [][\A c \in Clients, r \in Resources, lt \in LockTypes :
       (LockCall(c, r, lt) /\ Holds(c, r)) =>
         /\ pc'[c] = "idle"
         /\ UNCHANGED <<lockedResources, rwReaders, rwWriter>>
         /\ ret' = IF lockedResources[c][r] = R_LOCK /\ lt = W_LOCK
                   THEN "cannot_upgrade" ELSE "ok"]_vars

\* C10: Unlock by a transaction succeeds only on an exact match of resource
\* and lock type; otherwise it returns invalid_unlock and changes neither the
\* held set nor the mutex.
C10_UnlockExact ==
  [][\A c \in Clients, r \in Resources, lt \in LockTypes :
       (Unlock(c, r, lt) /\ c \in transactions) =>
         /\ ret' = "ok" => lockedResources[c][r] = lt
         /\ lockedResources[c][r] # lt =>
              /\ ret' = "invalid_unlock"
              /\ UNCHANGED <<lockedResources, rwReaders, rwWriter>>]_vars

(***************************************************************************)
(* Properties of the pager.                                                *)
(***************************************************************************)
ListSet(list) == {list[i] : i \in 1..Len(list)}

\* how many links of the three lists hold frame f
Links(f) ==
  Cardinality({i \in 1..Len(pager.freeList) : pager.freeList[i] = f})
  + Cardinality({i \in 1..Len(pager.unpinnedList) : pager.unpinnedList[i] = f})
  + Cardinality({i \in 1..Len(pager.pinnedList) : pager.pinnedList[i] = f})

\* C11: between pager operations every frame is in exactly one of the free,
\* unpinned and pinned lists, and every page-table entry maps a page number
\* to a frame of the pinned or unpinned list that holds that page.
C11_FramesPartitioned ==
  /\ \A f \in Frames : Links(f) = 1
  /\ \A pn \in PageNums :
       pager.pageTable[pn] # NoFrame =>
         /\ pager.pageTable[pn] \in
              ListSet(pager.pinnedList) \cup ListSet(pager.unpinnedList)
         /\ pager.frames[pager.pageTable[pn]].pagenum = pn

\* more pages exist than frames, one of them is not in the pool, and pages
\* are held in the pinned and in the unpinned list
C11_Witness ==
  /\ pager.numPages > MaxPagesInBuffer
  /\ pager.pinnedList # <<>>
  /\ pager.unpinnedList # <<>>
  /\ \E pn \in PageNums : pager.pageTable[pn] = NoFrame /\ pn < pager.numPages

\* C12: after any sequence of GetNewPage, GetPage and PutPage calls every
\* frame of the pinned list has pin count at least 1, every frame of the
\* unpinned list has pin count 0, and no pin count is negative.
C12_PinCounts ==
  /\ \A f \in ListSet(pager.pinnedList) : pager.frames[f].pinCount >= 1
  /\ \A f \in ListSet(pager.unpinnedList) : pager.frames[f].pinCount = 0
  /\ \A f \in Frames : pager.frames[f].pinCount >= 0

\* C13: GetPage(pn) returns the bytes most recently written to pn through
\* Update, whatever evictions, closes and reopens happened in between: in
\* the state a successful GetPage leaves, the frame it returned holds the
\* bytes of the last Update of that page.
C13_GetPageReadsLastUpdate ==
  (pret.op = "GetPage" /\ pret.err = "nil" /\ written[pret.pn] # 0) =>
    pager.frames[pret.page].data = written[pret.pn]

\* a GetPage has just returned a clean frame holding a page that was updated,
\* after more pages were created than the buffer has frames
C13_Witness ==
  /\ pret.op = "GetPage" /\ pret.err = "nil"
  /\ written[pret.pn] # 0
  /\ pager.frames[pret.page].pinCount = 1
  /\ ~pager.frames[pret.page].dirty
  /\ pager.numPages > MaxPagesInBuffer
  /\ \E pn \in PageNums : pn # pret.pn /\ written[pn] # 0
                            /\ written[pn] # written[pret.pn]

\* C14: GetNewPage succeeds exactly when the free or the unpinned list is
\* non-empty; on success the page has the previous numPages as its number,
\* is pinned once and dirty, and numPages grows by one; on failure numPages,
\* the page table and the three lists are unchanged.
C14_GetNewPage ==
  [][GetNewPage =>
       /\ (pret'.err = "nil")
            = (pager.freeList # <<>> \/ pager.unpinnedList # <<>>)
       /\ pret'.err = "nil" =>
            /\ pret'.pn = pager.numPages
            /\ pager'.frames[pret'.page].pagenum = pager.numPages
            /\ pager'.frames[pret'.page].pinCount = 1
            /\ pager'.frames[pret'.page].dirty
            /\ pret'.page \in ListSet(pager'.pinnedList)
            /\ pager'.pageTable[pager.numPages] = pret'.page
            /\ pager'.numPages = pager.numPages + 1
       /\ pret'.err # "nil" =>
            /\ pret'.err = "out_of_pages"
            /\ pager'.numPages = pager.numPages
            /\ pager'.pageTable = pager.pageTable
            /\ pager'.freeList = pager.freeList
            /\ pager'.unpinnedList = pager.unpinnedList
            /\ pager'.pinnedList = pager.pinnedList]_vars

\* GetNewPage has just failed, and before that one has evicted a page
C14_Witness ==
  /\ pret.op = "GetNewPage" /\ pret.err = "out_of_pages"
  /\ pager.numPages > MaxPagesInBuffer
  /\ Len(pager.pinnedList) = MaxPagesInBuffer

(***************************************************************************)
(* Properties of the B+Tree index.                                         *)
(***************************************************************************)
\* the keys stored in the leaves below page pn
RECURSIVE SubtreeKeys(_, _)
SubtreeKeys(T, pn) ==
  IF T[pn + 1].leaf
  THEN {T[pn + 1].keys[i] : i \in 0..(T[pn + 1].numKeys - 1)}
  ELSE UNION {SubtreeKeys(T, T[pn + 1].pns[i]) : i \in 0..T[pn + 1].numKeys}

\* the pages below and including pn, parents first, children left to right
RECURSIVE PagesFrom(_, _, _)
PagesFrom(T, pn, i) ==
  IF T[pn + 1].leaf \/ i > T[pn + 1].numKeys THEN <<>>
  ELSE <<T[pn + 1].pns[i]>> \o PagesFrom(T, T[pn + 1].pns[i], 0)
         \o PagesFrom(T, pn, i + 1)

PagesOf(T) == <<ROOT_PN>> \o PagesFrom(T, ROOT_PN, 0)

\* the leaves of the tree from left to right
LeavesOf(T) == SelectSeq(PagesOf(T), LAMBDA pn : T[pn + 1].leaf)

\* the leaves met by following rightSiblingPN from page pn, at most n of them
RECURSIVE SiblingChain(_, _, _)
SiblingChain(T, pn, n) ==
  IF pn < 0 \/ pn >= Len(T) \/ n = 0 THEN <<>>
  ELSE <<pn>> \o SiblingChain(T, T[pn + 1].right, n - 1)

\* the entries of the reference map with lo <= key < hi, ascending
RECURSIVE RefEntries(_, _)
RefEntries(lo, hi) ==
  IF lo >= hi \/ lo > MaxBKey THEN <<>>
  ELSE (IF lo \in BKeys /\ bref[lo] # NoVal THEN << <<lo, bref[lo]>> >> ELSE <<>>)
         \o RefEntries(lo + 1, hi)

\* a leaf that deletions have emptied
HasEmptyLeaf == \E i \in 1..Len(bt) : bt[i].leaf /\ bt[i].numKeys = 0

\* the root is an internal node whose children are internal nodes
ThreeLevels ==
  /\ ~bt[ROOT_PN + 1].leaf
  /\ ~bt[bt[ROOT_PN + 1].pns[0] + 1].leaf

\* C15: after every single-threaded sequence of Insert, Update and Delete,
\* Find of every key returns what a reference key-to-value map holds, and
\* the outcome of the last call is the map's: Insert fails exactly on a
\* present key, Update fails exactly on an absent key, Find returns the
\* map's entry.
C15_AgreesWithMap ==
  /\ \A k \in BKeys :
       Find(bt, k) = IF bref[k] = NoVal
                     THEN [err |-> "not_found", entries |-> <<>>]
                     ELSE [err |-> "nil", entries |-> << <<k, bref[k]>> >>]
  /\ bret.op \in {"Insert", "Update"} => (bret.err = "nil" <=> bexp = "ok")
  /\ bret.op = "Find" => (bret.err = "nil" <=> bexp = "ok")
  /\ bret.op = "Find" => bret.entries = RefEntries(bret.key, bret.key + 1)

\* an Update has just replaced a value in a tree of three levels in which
\* one key was deleted and another is stored with the other value
C15_Witness ==
  /\ bret.op = "Update" /\ bret.err = "nil"
  /\ ThreeLevels
  /\ \E k \in BKeys : bref[k] = NoVal
  /\ \E k1, k2 \in BKeys : bref[k1] # NoVal /\ bref[k2] # NoVal /\ bref[k1] # bref[k2]

\* C16: after every Insert, Update or Delete the root is page 0 (every page
\* of the file is in the tree below page 0, once), the keys of each leaf
\* are strictly ascending, every separator key of an internal node is
\* greater than all keys below the child to its left and less than or equal
\* to all keys below the child to its right, and the right-sibling pointers
\* lead from the leftmost leaf through every leaf in ascending key order.
C16_Structure ==
  /\ Len(PagesOf(bt)) = Len(bt)
  /\ {PagesOf(bt)[i] : i \in 1..Len(PagesOf(bt))} = 0..(Len(bt) - 1)
  /\ \A p \in 1..Len(bt) : bt[p].leaf =>
       \A i, j \in 0..(bt[p].numKeys - 1) : i < j => bt[p].keys[i] < bt[p].keys[j]
  /\ \A p \in 1..Len(bt) : ~bt[p].leaf =>
       \A i \in 0..(bt[p].numKeys - 1) :
         /\ \A k \in SubtreeKeys(bt, bt[p].pns[i]) : k < bt[p].keys[i]
         /\ \A k \in SubtreeKeys(bt, bt[p].pns[i + 1]) : bt[p].keys[i] <= k
  /\ SiblingChain(bt, leftmost(bt, ROOT_PN), Len(bt)) = LeavesOf(bt)
  /\ LET chain == SiblingChain(bt, leftmost(bt, ROOT_PN), Len(bt)) IN
     \A a, b \in 1..Len(chain) : a < b =>
       \A ka \in SubtreeKeys(bt, chain[a]), kb \in SubtreeKeys(bt, chain[b]) : ka < kb

\* an Insert has just stored a key in a tree of three levels that has an
\* emptied leaf and a leaf with two keys
C16_Witness ==
  /\ bret.op = "Insert" /\ bret.err = "nil"
  /\ ThreeLevels
  /\ HasEmptyLeaf
  /\ \E i \in 1..Len(bt) : bt[i].leaf /\ bt[i].numKeys = 2

\* C17: Select returns every stored entry exactly once in ascending key
\* order for any tree contents, including trees in which deletions have
\* emptied some or all leaves.
C17_SelectReturnsAll ==
  bret.op = "Select" =>
    /\ bret.err = "nil"
    /\ bret.entries = RefEntries(1, MaxBKey + 1)

\* C18: SelectRange(start, end) returns an error if start >= end and
\* otherwise exactly the stored entries with start <= key < end in
\* ascending key order, whether or not start is a stored key.
C18_SelectRangeExact ==
  bret.op = "SelectRange" =>
    IF bret.key >= bret.endKey
    THEN bret.err # "nil"
    ELSE /\ bret.err = "nil"
         /\ bret.entries = RefEntries(bret.key, bret.endKey)

(***************************************************************************)
(* Properties of the two indexes on missing keys and of the hash table.    *)
(***************************************************************************)
\* C19: Find, Update and Delete of a key that is not in the index each
\* return a not_found error and leave the index unchanged, on the B+Tree
\* and on the hash index.
C19_MissingKeyNotFound ==
  [][/\ (bret'.op \in {"Find", "Update", "Delete"} /\ bexp' = "missing") =>
          (bret'.err = "not_found" /\ bt' = bt)
     /\ (hret'.op \in {"Find", "Update", "Delete"} /\ hexp' = "missing") =>
          (hret'.err = "not_found" /\ ht' = ht)]_vars

\* the directory slots that reference bucket page pn
SlotsOf(H, pn) == {i \in 0..(Len(H.buckets) - 1) : H.buckets[i + 1] = pn}

\* C20: after every Insert into the hash table, also one that splits
\* buckets and doubles the directory, every bucket's local depth d is at
\* most the global depth G, exactly 2^(G-d) directory slots reference the
\* bucket, and the hash of every key in it agrees with each of those slot
\* indices modulo 2^d.
C20_HashInvariant ==
  hret.op = "Insert" =>
    /\ Len(ht.buckets) = powInt(2, ht.globalDepth)
    /\ \A pn \in 0..(Len(ht.pages) - 1) :
         LET d == ht.pages[pn + 1].localDepth IN
         /\ d <= ht.globalDepth
         /\ Cardinality(SlotsOf(ht, pn)) = powInt(2, ht.globalDepth - d)
         /\ \A e \in 1..Len(ht.pages[pn + 1].entries), i \in SlotsOf(ht, pn) :
              Hasher(ht.pages[pn + 1].entries[e][1], d) = i % powInt(2, d)

\* an Insert has just returned with the directory doubled twice, a bucket
\* split at a local depth below the global depth so that two slots
\* reference each half, and a bucket of the initial depth left
C20_Witness ==
  /\ hret.op = "Insert"
  /\ ht.globalDepth = InitialDepth + 2
  /\ \E pn \in 0..(Len(ht.pages) - 1) :
       /\ ht.pages[pn + 1].localDepth = InitialDepth + 1
       /\ pn >= powInt(2, InitialDepth) + 2
       /\ ht.pages[pn + 1].entries # <<>>
  /\ \E pn \in 0..(Len(ht.pages) - 1) : ht.pages[pn + 1].localDepth = InitialDepth

\* C21: after any sequence of Inserts of distinct keys into the hash table,
\* however many buckets were split and however often the directory doubled,
\* Find of every inserted key returns the entry with the inserted value.
C21_InsertedFound ==
  \A k \in HKeys : href[k] # NoVal =>
    TableFind(ht, k) = [err |-> "nil", entries |-> <<<<k, href[k]>>>>]

\* the directory has doubled twice, four keys are stored, one bucket was
\* split twice in one Insert, and a Find has returned
C21_Witness ==
  /\ hret.op = "Find" /\ hret.err = "nil"
  /\ ht.globalDepth = InitialDepth + 2
  /\ Cardinality({k \in HKeys : href[k] # NoVal}) >= 4
  /\ href[0] # NoVal /\ href[8] # NoVal

\* C22: after inserts with any number of Close / OpenTable cycles in
\* between, the table OpenTable returns has the global depth and the
\* directory the table had at the Close before it, and Find of every
\* inserted key returns the entry with the inserted value.
C22_ReopenRestores ==
  [][HCloseAndReopen =>
       /\ ht'.globalDepth = ht.globalDepth
       /\ ht'.buckets = ht.buckets
       /\ \A k \in HKeys : href[k] # NoVal =>
            TableFind(ht', k) = [err |-> "nil", entries |-> <<<<k, href[k]>>>>]]_vars

(***************************************************************************)
(* Properties of recovery and rollback.                                    *)
(***************************************************************************)
\* <<key, value before>> of the keys changed by transactions that have no
\* commit record
Uncommitted == UNION {wrote[c] : c \in Clients}

\* C1: after a crash at any state followed by Prime and a Recover that
\* returns nil, every key changed by a transaction whose commit record is in
\* the log holds the value of the last committed edit, and is absent if that
\* edit was a delete.
C1_CommittedSurvive ==
  [][(CrashAndRecover /\ ret' = "nil") =>
       \A k \in committedKeys : tbl'[k] = committedTbl[k]]_vars

\* C2: after a crash at any state followed by Prime and a Recover that
\* returns nil, every key changed by a transaction without a commit record
\* holds the value it had before that transaction changed it, and is absent
\* if the transaction inserted it.
C2_UncommittedUndone ==
  [][(CrashAndRecover /\ ret' = "nil") =>
       \A p \in Uncommitted : tbl'[p[1]] = p[2]]_vars

\* C3: when abort's Rollback returns nil for a transaction, every key the
\* transaction changed holds the value it had before the transaction changed
\* it (absent if it was inserted), and every other key is unchanged.
C3_RollbackRestores ==
  [][\A c \in Clients : (HandleAbort(c) /\ ret' = "nil") =>
       /\ \A p \in wrote[c] : tbl'[p[1]] = p[2]
       /\ \A k \in Keys \ KeysOf(wrote[c]) : tbl'[k] = tbl[k]]_vars

(***************************************************************************)
(* Properties of the write-ahead log.                                      *)
(***************************************************************************)
\* the edit records of the log file, parsed; a line that is not one is itself
EditRecords ==
  {logFromString(logFile[i]) :
     i \in {j \in 1..Len(logFile) : logFile[j].kind = "edit"}}

\* C23: every insert, update or delete made through the recovery layer is in
\* the log file as an edit record before the index is changed: after every
\* step, a handler that waits for its key's lock has its edit in the file,
\* every value a key holds is the new
\* value of an INSERT or UPDATE record of that key, and a key that a step
\* removes has a DELETE record, unless the step is a crash that brings back
\* a recovery folder without the key.
C23_LoggedBeforeApplied ==
  [][/\ \A c \in Clients : (pc'[c] = "lockWait" /\ op'[c] # NoOp) =>
          editLog(c, op'[c].action, op'[c].key, op'[c].oldval, op'[c].newval)
            \in EditRecords'
     /\ \A k \in Keys :
          /\ tbl'[k] # NoVal =>
               \E l \in EditRecords' :
                 /\ l.key = k /\ l.newval = tbl'[k]
                 /\ l.action \in {"INSERT", "UPDATE"}
          /\ (tbl[k] # NoVal /\ tbl'[k] = NoVal) =>
               \/ \E l \in EditRecords' : l.key = k /\ l.action = "DELETE"
               \/ recoveryFolder.tbl[k] = NoVal /\ CrashAndRecover]_vars

\* one key holds a value that an edit changed, and a handler that has logged
\* its edit of the other key waits for the lock before it changes the index
C23_Witness ==
  \E c \in Clients, k \in Keys :
    /\ pc[c] = "lockWait" /\ op[c] # NoOp /\ op[c].key # k
    /\ tbl[k] # NoVal
    /\ tbl[op[c].key] = (IF op[c].action = "INSERT" THEN NoVal ELSE op[c].oldval)

\* C24: in the log file every edit record of an id comes after a start
\* record of that id with no commit record of the id in between: no edit is
\* logged for an id that has no started and uncommitted transaction.
C24_EditsInsideTransactions ==
  \A i \in 1..Len(logFile) : logFile[i].kind = "edit" =>
    \E j \in 1..(i - 1) :
      /\ logFile[j].kind = "start" /\ logFile[j].id = logFile[i].id
      /\ \A m \in (j + 1)..(i - 1) :
           ~(logFile[m].kind = "commit" /\ logFile[m].id = logFile[i].id)

RedoOps == {"RedoInsert", "RedoUpdate", "RedoDelete"}

\* C25: redo of an edit log returns nil whether or not the key is in the
\* table, on a B+Tree and on a hash table: afterwards the key of an insert or
\* an update is found with the new value, the key of a delete is not found,
\* every other key is as before, and a delete of a missing key leaves the
\* table unchanged.
C25_RedoNeverFails ==
  [][/\ bret'.op \in RedoOps =>
          /\ bret'.err = "nil"
          /\ \A k \in BKeys :
               Find(bt', k) = (IF bref'[k] = NoVal
                               THEN [err |-> "not_found", entries |-> <<>>]
                               ELSE [err |-> "nil", entries |-> <<<<k, bref'[k]>>>>])
          /\ (bret'.op = "RedoDelete" /\ bexp' = "missing") => bt' = bt
     /\ hret'.op \in RedoOps =>
          /\ hret'.err = "nil"
          /\ \A k \in HKeys :
               TableFind(ht', k) = (IF href'[k] = NoVal
                                    THEN [err |-> "not_found", entries |-> <<>>]
                                    ELSE [err |-> "nil", entries |-> <<<<k, href'[k]>>>>])
          /\ (hret'.op = "RedoDelete" /\ hexp' = "missing") => ht' = ht]_vars

\* the edit log that takes back edit log l
InverseLog(l) ==
  IF l.action = "INSERT" THEN editLog(l.id, "DELETE", l.key, l.newval, 0)
  ELSE IF l.action = "UPDATE" THEN editLog(l.id, "UPDATE", l.key, l.newval, l.oldval)
  ELSE editLog(l.id, "INSERT", l.key, 0, l.oldval)

\* the handler of c logged first, its lock or index step failed, and the
\* record after position n of the log file is what it logged next
PairIsNoOp(c, first, n) ==
  LET second == logFromString(logFile'[n + 1]) IN
  /\ second = InverseLog(first)
  /\ \A i \in 1..Len(txStack'[c]) : txStack'[c][i] \notin {first, second}
  /\ redo(redo(Mem, first), second).tbl = tbl

\* C26: when the lock or the index step of an insert, update or delete fails
\* after the edit was logged, the next record the handler logs is the
\* inverse edit, neither of the two is on the transaction's stack afterwards,
\* and redo of the two records in log order, on the table the failed step
\* left as it was, leaves every key with the value it had.
C26_FailedEditIsNoOp ==
  [][\A c \in Clients :
       /\ (/\ pc[c] = "lockWait" /\ op[c] # NoOp
           /\ Len(logFile') > Len(logFile)
           /\ HandleEditApply(c)) =>
            PairIsNoOp(c, editLog(c, op[c].action, op[c].key, op[c].oldval,
                                  op[c].newval), Len(logFile))
       /\ (/\ pc[c] = "idle"
           /\ Len(logFile') >= Len(logFile) + 2
           /\ ret' # "nil"
           /\ \E a \in EditActions, k \in Keys, v \in Vals :
                HandleEditCall(c, a, k, v)) =>
            PairIsNoOp(c, logFromString(logFile'[Len(logFile) + 1]),
                       Len(logFile) + 1)]_vars

(***************************************************************************)
(* Properties of the threads on the B+Tree.                                *)
(***************************************************************************)
\* thread t has moved the root's contents to a new page and has not yet
\* given page 0 its key and its two children
RootSplitting(t) == th[t].pc \in {"rootInit", "rootFill"}

\* C27: while a thread is between moving the old root to a new page and
\* completing the new root in page 0, no other thread reads or writes page 0.
C27_RootSplitAtomic ==
  \A a \in accesses :
    a.pn = ROOT_PN => \A t \in Threads \ {a.t} : ~RootSplitting(t)

\* the cursor of thread t is with Select or SelectRange, between two calls
CursorOpen(t) == th[t].pc \in {"getEntry", "next"} /\ ~th[t].fresh

\* C28: between its creation and Close a cursor holds the read lock of the
\* leaf it is in and no other page lock; so after Next has crossed to the
\* right sibling, the sibling is read-locked and the previous leaf is not.
C28_CursorHoldsCurrentLeaf ==
  \A t \in Threads :
    CursorOpen(t) => th[t].w = {} /\ DOMAIN th[t].r = {th[t].cur}

\* C29: a thread that has returned from Select or SelectRange, as from every
\* other call, holds no page lock and no table lock, so that no call made
\* later has to wait for a lock left by a finished scan.
C29_ScanReleasesLocks ==
  \A t \in Threads :
    th[t].pc = "idle" => th[t].w = {} /\ th[t].r = NoReadLocks

\* C30: every read of a page of the tree is made by a thread that holds the
\* page's read or write lock, every write by a thread that holds its write
\* lock, and whenever a descent locks a child it still holds the parent's
\* lock.
C30_AccessesUnderLocks ==
  /\ \A a \in accesses :
       IF a.wr THEN a.lock = "W" ELSE a.lock \in {"R", "W"}
  /\ \A t \in Threads : th[t].crab

(***************************************************************************)
(* Properties of Checkpoint next to the threads of the B+Tree.             *)
(***************************************************************************)
\* thread t is inside GetPage or GetNewPage, waiting for the pager's mutex
WaitsForPager(t) ==
  /\ th[t].pc \in {"getChild", "pagerWait"}
  /\ ~LockFree(PTMTX)

\* C31: a Checkpoint next to insert, update, delete and find always
\* completes: it never waits for the lock of a page whose holder waits for
\* the pager's mutex that Checkpoint holds
C31_CheckpointCompletes ==
  \A c \in Checkpointers, t \in Writers :
    ~(/\ th[c].pc = "lockPage"
      /\ PTMTX \in th[c].w
      /\ th[c].child \in th[t].w
      /\ WaitsForPager(t))

(***************************************************************************)
(* Properties of the edits of concurrent transactions.                     *)
(***************************************************************************)
\* C32: between the moment an update or a delete has read the key's old
\* value for its edit record and the moment the edit is applied under the
\* write lock, no other transaction changes the key: while the handler
\* waits for the lock the table still holds the value of the record, so an
\* undo of the record puts back nothing but that transaction's own change.
C32_OldValueStable ==
  \A c \in Clients :
    (/\ pc[c] = "lockWait" /\ op[c] # NoOp
     /\ op[c].action \in {"UPDATE", "DELETE"}) =>
      tbl[op[c].key] = op[c].oldval

(***************************************************************************)
(* Properties of the transaction manager's error paths.                    *)
(***************************************************************************)
\* C33: a Lock that returns the deadlock error leaves the transaction's held
\* set as it was and holds none of the mutexes it took, the transaction's
\* own included, so no later call of the transaction waits on its own state.
C33_DeadlockErrorReleases ==
  [][\A c \in Clients :
       (/\ ret' = "deadlock"
        /\ \E r \in Resources, lt \in LockTypes : LockCall(c, r, lt)) =>
         /\ lockedResources'[c] = lockedResources[c]
         /\ rwReaders' = rwReaders /\ rwWriter' = rwWriter
         /\ txReaders'[c] = 0]_vars

\* C34: the table of transactions is read and written under tm.mtx only:
\* while a Lock ranges over the table no Begin and no Commit changes it.
C34_TableUnderMutex ==
  [][\A c \in Clients : pc[c] = "iterate" => transactions' = transactions]_vars

\* C35: Unlock of a resource that was never locked returns an error and
\* leaves the manager usable: the manager's own mutex is free afterwards, as
\* it is after every call, so later Lock and Unlock calls get past it.
C35_UnlockUnknownLeavesUsable ==
  ~lmMtx

(***************************************************************************)
(* Properties of the hash table's splits.                                  *)
(***************************************************************************)
\* C36: every Insert terminates: whatever the table holds and whatever key
\* comes, the splits of Insert come to an end, which they do only when the
\* two buckets of the last split are both below MAX_BUCKET_SIZE; the depth
\* up to which the splits are followed is enough for that.
C36_InsertTerminates ==
  \A key \in HKeys :
    \E H \in {TableInsert(ht, key, MaxHVal)} :
      \A i \in 1..Len(H.pages) : Len(H.pages[i].entries) < MAX_BUCKET_SIZE

(***************************************************************************)
(* The pager calls of the scans: the GetPage and PutPage calls Select and  *)
(* SelectRange make on tree T, in the order they make them.                *)
(***************************************************************************)
GetCall(pn) == [get |-> TRUE, pn |-> pn]
PutCall(pn) == [get |-> FALSE, pn |-> pn]

\* the loop of CursorAtStart from node pn on: GetPage of the leftmost child,
\* PutPage of the node
RECURSIVE StartLoopCalls(_, _)
StartLoopCalls(T, pn) ==
  IF T[pn + 1].leaf THEN <<>>
  ELSE <<GetCall(T[pn + 1].pns[0]), PutCall(pn)>>
         \o StartLoopCalls(T, T[pn + 1].pns[0])

\* the loop of CursorAt from node pn on: getChildAt, PutPage(curPage)
RECURSIVE AtLoopCalls(_, _, _)
AtLoopCalls(T, pn, key) ==
  IF T[pn + 1].leaf THEN <<>>
  ELSE With(T[pn + 1].pns[internalSearch(T[pn + 1], key)], LAMBDA child :
         <<GetCall(child), PutCall(pn)>> \o AtLoopCalls(T, child, key))

\* BTreeCursor.Next
RECURSIVE NextCalls(_, _)
NextCalls(T, c) ==
  IF c.curIndex + 1 >= T[c.curNode + 1].numKeys
  THEN LET nextPN == T[c.curNode + 1].right IN
       IF nextPN < 0 \/ nextPN >= Len(T) THEN <<>>
       ELSE <<GetCall(nextPN), PutCall(c.curNode)>>
              \o (IF T[nextPN + 1].numKeys = 0
                    THEN NextCalls(T, [curNode |-> nextPN, curIndex |-> 0])
                    ELSE <<>>)
  ELSE <<>>

\* BTreeCursor.Close
CloseCalls(c) == <<PutCall(c.curNode)>>

\* the loop of Select with the deferred Close
RECURSIVE SelectLoopCalls(_, _)
SelectLoopCalls(T, c) ==
  IF GetEntry(T, c).err # "nil" THEN CloseCalls(c)
  ELSE With(CursorNext(T, c), LAMBDA r :
         NextCalls(T, c) \o (IF r.atEnd THEN CloseCalls(r.c)
                               ELSE SelectLoopCalls(T, r.c)))

\* BTreeIndex.Select with CursorAtStart
SelectCalls(T) ==
  With([curNode |-> leftmost(T, ROOT_PN), curIndex |-> 0], LAMBDA c :
    <<GetCall(ROOT_PN)>> \o StartLoopCalls(T, ROOT_PN)
      \o (IF T[c.curNode + 1].numKeys = 0 THEN NextCalls(T, c) ELSE <<>>)
      \o (IF CursorAtStart(T).err # "nil" THEN <<>>
           ELSE SelectLoopCalls(T, CursorAtStart(T).c)))

\* the loop of SelectRange with the deferred Close
RECURSIVE RangeLoopCalls(_, _, _, _)
RangeLoopCalls(T, c, endKey, checkEntry) ==
  IF endKey > checkEntry[1]
  THEN With(CursorNext(T, c), LAMBDA r :
         NextCalls(T, c)
           \o (IF r.atEnd \/ GetEntry(T, r.c).err # "nil" THEN CloseCalls(r.c)
                ELSE RangeLoopCalls(T, r.c, endKey, GetEntry(T, r.c).entry)))
  ELSE CloseCalls(c)

\* BTreeIndex.SelectRange with CursorAt
SelectRangeCalls(T, startKey, endKey) ==
  IF startKey >= endKey THEN <<>>
  ELSE With([curNode |-> leafFor(T, ROOT_PN, startKey),
             curIndex |-> leafSearch(T[leafFor(T, ROOT_PN, startKey) + 1],
                                     startKey)], LAMBDA c0 :
         <<GetCall(ROOT_PN)>> \o AtLoopCalls(T, ROOT_PN, startKey)
           \o (IF c0.curIndex >= T[c0.curNode + 1].numKeys
                THEN NextCalls(T, c0) ELSE <<>>)
           \o With(CursorAt(T, startKey), LAMBDA c :
                 IF GetEntry(T, c).err # "nil" THEN CloseCalls(c)
                 ELSE RangeLoopCalls(T, c, endKey, GetEntry(T, c).entry)))

\* the pin count the calls leave on page pn, which had none
PinsLeft(calls, pn) ==
  Cardinality({i \in 1..Len(calls) : calls[i].get /\ calls[i].pn = pn})
    - Cardinality({i \in 1..Len(calls) : ~calls[i].get /\ calls[i].pn = pn})

\* C37: when an operation of the index has returned, with or without an
\* error, every page it pinned is unpinned again, so the pinned list is
\* empty and Close does not fail with pages_still_pinned; here for the scans.
C37_OperationsUnpin ==
  \A pn \in 0..(Len(bt) - 1) :
    /\ bret.op = "Select" => PinsLeft(SelectCalls(bt), pn) = 0
    /\ bret.op = "SelectRange" =>
         PinsLeft(SelectRangeCalls(bt, bret.key, bret.endKey), pn) = 0

(***************************************************************************)
(* Properties of the pager's evictions.                                    *)
(***************************************************************************)
\* the step gives frame f, which holds a page, to another page
Reused(f) ==
  /\ f \in Resident(pager)
  /\ pager'.frames[f].pagenum # pager.frames[f].pagenum

\* C38: a frame that holds a page is reused for another page only when the
\* free list is empty and the frame's pin count is 0; it is the frame at the
\* head of the unpinned list, where PutPage pushes at the tail, so it is the
\* one that entered earliest; and if it was dirty its bytes are in the file
\* at the page's offset once it is reused.
C38_EvictionPolicy ==
  [][\A f \in Frames :
       Reused(f) =>
         /\ pager.freeList = <<>>
         /\ pager.frames[f].pinCount = 0
         /\ pager.unpinnedList # <<>> /\ f = Head(pager.unpinnedList)
         /\ pager.frames[f].dirty =>
              /\ Len(pager'.file) >= pager.frames[f].pagenum + 1
              /\ pager'.file[pager.frames[f].pagenum + 1] = pager.frames[f].data]_vars

(***************************************************************************)
(* Properties of repeated recovery.                                        *)
(***************************************************************************)
\* Prime after a crash that came when the log file held the lines log
PrimeWithLog(log) == [Prime EXCEPT !.log = log]

\* C39: recovery can be run again: when the process dies during Recover or
\* right after it, with any part of the lines Recover has written in the log
\* file, Prime and Recover run once more succeed and leave the table with
\* the contents a single uninterrupted Recover leaves.
C39_RecoverRerunnable ==
  \E M1 \in {Recover(Prime)} :
    M1.err = "nil" =>
      \A n \in Len(logFile)..Len(M1.log) :
        \E M2 \in {Recover(PrimeWithLog(SubSeq(M1.log, 1, n)))} :
          /\ M2.err = "nil"
          /\ M2.tblExists = M1.tblExists
          /\ M2.tbl = M1.tbl

\* Recover has undone the edits of a transaction that was running at the
\* crash, writing their inverses and a commit in the log file, and the table
\* it leaves is not the table of the last checkpoint
C39_Witness ==
  \E M1 \in {Recover(Prime)} :
    /\ M1.err = "nil"
    /\ Len(M1.log) >= Len(logFile) + 2
    /\ M1.tblExists
    /\ M1.tbl # recoveryFolder.tbl

(***************************************************************************)
(* Properties of the text of the log.                                      *)
(***************************************************************************)
\* C40: every log the system can write (table, start, commit, checkpoint,
\* and edit with any key, old value and new value) is read back from its
\* line as it was written: logFromString of the line toString wrote is the
\* log itself.
C40_LogRoundTrip ==
  [][\A l \in LogRecords :
       logFile' = Append(logFile, toString(l)) =>
         logFromString(logFile'[Len(logFile')]) = l]_vars

====
